---- MODULE Spec2Model ----
(***************************************************************************)
(* Passive signal aggregation and protection engine of Redakta Labs        *)
(* (POST handler of the passive OSINT route): caller rate limiter,         *)
(* upstream budget limiter, threat-intel and KEV caches, signal mappers    *)
(* and the verdict aggregator.                                             *)
(*                                                                         *)
(* Time is Date.now() in milliseconds.  The clock only takes the values of *)
(* Instants (window and TTL boundaries and their neighbours).              *)
(***************************************************************************)
EXTENDS Integers, Sequences, FiniteSets, TLC

VARIABLES
    now,               \* Date.now()
    rateLimitStore,    \* Map<ip, {count, resetAt}>
    rlLast,            \* observation: last checkRateLimit call and its return value
    admitTimes,        \* observation: per caller, times of the calls that returned allowed=true,
                       \*              kept while inside the rolling interval (now - window, now]
    histWin,           \* observation: per caller, start of the current fixed window and
                       \*              the number of allowed calls counted from the history
    upstreamRateStore, \* Map<source, {count, resetAt}>
    threatIntelCache,  \* Map<"domain|ip", {expiresAt, data}>
    kevCache,          \* {expiresAt, cves} | null
    world,             \* what each upstream source answers when it answers (fixed in a behaviour)
    tasks,             \* the checkThreatIntel calls in flight: position and locals
    issued,            \* observation: per source, HTTP calls issued in the current budget window
    obs,               \* observation: the last step, its external calls and its return value
    run,               \* bookkeeping: the calls and the bursts of other traffic so far
    signals,           \* allSignals handed to overallFromSignals (bands)
    overall,           \* return value of overallFromSignals
    env,               \* process.env: the Turnstile configuration (fixed in a behaviour)
    reqs,              \* the POST requests in flight: position and locals
    act,               \* observation: the last step of the handler, its external calls
                       \*              and the response it sent
    probe,             \* input of the check followed: the answers of its DNS and HTTP
                       \*              lookups, or a raw outcome handed to a mapper
    outcome,           \* result of the check followed: raw outcome, lookups issued, signal
    panel,             \* InternetWeatherPanel: the connection state, the locals of its
                       \*              WebSocket effect and the socket's readyState
    sitrepCache,       \* sitrep route: cache, {expiresAt, data} | null
    gets               \* sitrep route: the GET requests in flight and the last response

vars == <<now, rateLimitStore, rlLast, admitTimes, histWin, upstreamRateStore,
          threatIntelCache, kevCache, world, tasks, issued, obs, run, signals, overall,
          env, reqs, act, probe, outcome, panel, sitrepCache, gets>>

limiterVars == <<rateLimitStore, rlLast, admitTimes, histWin>>
intelVars == <<upstreamRateStore, threatIntelCache, kevCache, world, tasks, issued, obs, run>>
verdictVars == <<signals, overall>>
postVars == <<env, reqs, act>>
checkVars == <<probe, outcome>>
weatherVars == <<panel, sitrepCache, gets>>

-----------------------------------------------------------------------------
(* Program constants *)

RATE_LIMIT_WINDOW_MS == 60 * 1000
RATE_LIMIT_MAX_REQUESTS == 10
RATE_LIMIT_SWEEP_SIZE == 1000

(* Model inputs *)

Callers == {"ip1", "ip2"}

\* A caller sends at most this many requests within one window.
MaxCallsPerWindow == 11

\* Clock values: the opening of a window, its last instant (resetAt) and the first after it.
LimiterInstants == {0, RATE_LIMIT_WINDOW_MS, RATE_LIMIT_WINDOW_MS + 1}

-----------------------------------------------------------------------------
(* Map helpers (JavaScript Map as a function on its key set) *)

EmptyMap == [k \in {} |-> 0]

MapSet(m, k, v) == [x \in (DOMAIN m) \cup {k} |-> IF x = k THEN v ELSE m[x]]

\* for (const [key, value] of store.entries()) if (value.resetAt < now) store.delete(key)
SweepExpiredLax(m, t) == [x \in {k \in DOMAIN m : ~(m[k].resetAt <= t)} |-> m[x]]
SweepExpired(m, t) == [x \in {k \in DOMAIN m : ~(m[k].resetAt < t)} |-> m[x]]

CeilDiv(a, b) == (a + b - 1) \div b

-----------------------------------------------------------------------------
(* Rate limiter *)

\* The entry is expired once its resetAt lies strictly before the call time.
WindowExpiredLax(entry, t) == entry.resetAt <= t
WindowExpired(entry, t) == entry.resetAt < t

\* The window is full.
WindowFullLax(entry, max) == entry.count > max
WindowFull(entry, max) == entry.count >= max

\* entry.count++
CountCallNot(entry) == entry
CountCall(entry) == [entry EXCEPT !.count = @ + 1]

\* The body of checkRateLimit with its two constants as parameters.
checkRateLimitWith(store, ip, t, window, max) ==
    LET has   == ip \in DOMAIN store
        swept == IF Cardinality(DOMAIN store) > RATE_LIMIT_SWEEP_SIZE
                 THEN SweepExpired(store, t) ELSE store
    IN  IF ~has \/ WindowExpired(store[ip], t)
        THEN [store     |-> MapSet(swept, ip, [count |-> 1, resetAt |-> t + window]),
              allowed   |-> TRUE,
              remaining |-> max - 1,
              resetIn   |-> window]
        ELSE IF WindowFull(store[ip], max)
        THEN [store     |-> swept,
              allowed   |-> FALSE,
              remaining |-> 0,
              resetIn   |-> store[ip].resetAt - t]
        ELSE [store     |-> MapSet(swept, ip, CountCall(store[ip])),
              allowed   |-> TRUE,
              remaining |-> max - (store[ip].count + 1),
              resetIn   |-> store[ip].resetAt - t]

\* checkRateLimit(ip) called at time t on store: the new store and the return value.
checkRateLimit(store, ip, t) ==
    checkRateLimitWith(store, ip, t, RATE_LIMIT_WINDOW_MS, RATE_LIMIT_MAX_REQUESTS)

\* History bookkeeping of a call of ip at time t (not program state): the window
\* runs from its first call to RATE_LIMIT_WINDOW_MS later, both included.
NoteCall(hw, ip, t, allowed) ==
    LET a == IF allowed THEN 1 ELSE 0
    IN  IF hw[ip].calls = 0 \/ t > hw[ip].start + RATE_LIMIT_WINDOW_MS
        THEN [hw EXCEPT ![ip] = [start |-> t, calls |-> 1, admits |-> a]]
        ELSE [hw EXCEPT ![ip] = [start |-> @.start, calls |-> @.calls + 1, admits |-> @.admits + a]]

RECURSIVE DropOld(_, _)
DropOld(s, t) ==
    IF s = <<>> THEN <<>>
    ELSE IF Head(s) <= t - RATE_LIMIT_WINDOW_MS THEN DropOld(Tail(s), t) ELSE s

NoCall == [ip |-> "none", at |-> 0, allowed |-> TRUE, remaining |-> 0, resetIn |-> 0]

\* One call of checkRateLimit(ip) with its observations.
GateCall(ip) ==
    LET r == checkRateLimit(rateLimitStore, ip, now)
    IN  /\ \/ histWin[ip].calls < MaxCallsPerWindow
           \/ now > histWin[ip].start + RATE_LIMIT_WINDOW_MS
        /\ rateLimitStore' = r.store
        /\ rlLast' = [ip |-> ip, at |-> now, allowed |-> r.allowed,
                      remaining |-> r.remaining, resetIn |-> r.resetIn]
        /\ admitTimes' = IF r.allowed THEN [admitTimes EXCEPT ![ip] = Append(@, now)]
                         ELSE admitTimes
        /\ histWin' = NoteCall(histWin, ip, now, r.allowed)

\* Time passes.
ClockTo(t) ==
    /\ t > now
    /\ now' = t
    /\ admitTimes' = [c \in Callers |-> DropOld(admitTimes[c], t)]

-----------------------------------------------------------------------------
(* Upstream budget limiter *)

Sources == {"urlhaus", "threatfox", "shodan", "abuseipdb", "kev"}

UPSTREAM_RATE_WINDOW_MS == 60 * 1000
UPSTREAM_RATE_MAX_REQUESTS ==
    [urlhaus |-> 20, threatfox |-> 20, shodan |-> 30, abuseipdb |-> 20, kev |-> 5]
THREAT_INTEL_CACHE_TTL_MS == 5 * 60 * 1000
KEV_CACHE_TTL_MS == 6 * 60 * 60 * 1000
THREAT_INTEL_SWEEP_SIZE == 1000

\* The budget window of the source is over.
BudgetExpiredLax(entry, t) == entry.resetAt <= t
BudgetExpired(entry, t) == entry.resetAt < t

\* The source is at budget capacity.
BudgetFullLax(entry, limit) == entry.count > limit
BudgetFull(entry, limit) == entry.count >= limit

\* The body of consumeUpstreamBudget with its two constants as parameters.
consumeUpstreamBudgetWith(store, source, t, window, limit) ==
    IF source \notin DOMAIN store \/ BudgetExpired(store[source], t)
    THEN [store |-> MapSet(store, source, [count |-> 1, resetAt |-> t + window]),
          ok    |-> TRUE]
    ELSE IF BudgetFull(store[source], limit)
    THEN [store |-> store, ok |-> FALSE]
    ELSE [store |-> MapSet(store, source, [store[source] EXCEPT !.count = @ + 1]),
          ok    |-> TRUE]

\* consumeUpstreamBudget(source) called at time t on store: the new store and the return value.
consumeUpstreamBudget(store, source, t) ==
    consumeUpstreamBudgetWith(store, source, t, UPSTREAM_RATE_WINDOW_MS,
                              UPSTREAM_RATE_MAX_REQUESTS[source])

\* History bookkeeping of an HTTP call issued to source at time t (not program state).
NoteIssued(iss, source, t) ==
    IF iss[source].calls = 0 \/ t > iss[source].start + UPSTREAM_RATE_WINDOW_MS
    THEN [iss EXCEPT ![source] = [start |-> t, calls |-> 1]]
    ELSE [iss EXCEPT ![source].calls = @ + 1]

-----------------------------------------------------------------------------
(* Upstream clients *)

NULL_IP == "null"       \* getPrimaryIp returned null
NULL_NUM == -1          \* a number | null that is null (abuseScore, kevHits)

\* process.env.ABUSEIPDB_API_KEY is configured.
ABUSEIPDB_API_KEY_SET == TRUE

UrlhausUnavailable   == [available |-> FALSE, hits |-> 0]
ThreatFoxUnavailable == [available |-> FALSE, hits |-> 0]
ShodanUnavailable    == [available |-> FALSE, portCount |-> 0, vulnCount |-> 0, vulns |-> {}]
AbuseIpdbUnavailable == [available |-> FALSE, abuseScore |-> NULL_NUM]

\* The sources whose client gets as far as asking for budget, in call order
\* (checkUrlhaus, checkThreatFox, checkShodanInternetDb, checkAbuseIpdb).
RoundSources(ip) ==
    <<"urlhaus", "threatfox">>
      \o (IF ip # NULL_IP THEN <<"shodan">> ELSE <<>>)
      \o (IF ABUSEIPDB_API_KEY_SET /\ ip # NULL_IP THEN <<"abuseipdb">> ELSE <<>>)

\* The synchronous part of the four clients: every client consumes budget and
\* issues its fetch when granted.  Returns the store, the history and the sources
\* granted and refused.
RECURSIVE StartClients(_, _, _, _)
StartClients(store, iss, srcs, t) ==
    IF srcs = <<>> THEN [store |-> store, issued |-> iss, granted |-> {}, refused |-> {}]
    ELSE CHOOSE r \in
           { [rest EXCEPT !.granted = IF c.ok THEN @ \cup {Head(srcs)} ELSE @,
                          !.refused = IF c.ok THEN @ ELSE @ \cup {Head(srcs)}] :
               rest \in { StartClients(c.store,
                                       IF c.ok THEN NoteIssued(iss, Head(srcs), t) ELSE iss,
                                       Tail(srcs), t) :
                          c \in {consumeUpstreamBudget(store, Head(srcs), t)} },
               c \in {consumeUpstreamBudget(store, Head(srcs), t)} } : TRUE

\* What a client returns once its fetch settled: answered (2xx, parsed) or not.
UrlhausResult(w, answered) ==
    IF answered THEN [available |-> TRUE, hits |-> w.urlhausHits] ELSE UrlhausUnavailable
ThreatFoxResult(w, answered) ==
    IF answered THEN [available |-> TRUE, hits |-> w.threatfoxHits] ELSE ThreatFoxUnavailable
ShodanResult(w, answered) ==
    IF answered
    THEN [available |-> TRUE, portCount |-> w.ports,
          vulnCount |-> Cardinality(w.vulns), vulns |-> w.vulns]
    ELSE ShodanUnavailable
AbuseIpdbResult(w, answered) ==
    IF answered THEN [available |-> TRUE, abuseScore |-> w.abuseScore] ELSE AbuseIpdbUnavailable

-----------------------------------------------------------------------------
(* KEV catalog *)

NoKevCache == [valid |-> FALSE, expiresAt |-> 0, cves |-> {}]
NoCves == [some |-> FALSE, cves |-> {}]

\* kevCache && kevCache.expiresAt > Date.now()
KevCacheFresh(kc, t) == kc.valid /\ kc.expiresAt > t

\* kevCache?.cves ?? null
KevStale(kc) == IF kc.valid THEN [some |-> TRUE, cves |-> kc.cves] ELSE NoCves

\* The synchronous part of getKevCves at time t: a cache hit, a budget refusal or a fetch.
getKevCvesStart(kc, store, t) ==
    IF KevCacheFresh(kc, t)
    THEN [how |-> "hit", store |-> store, cves |-> [some |-> TRUE, cves |-> kc.cves]]
    ELSE LET c == consumeUpstreamBudget(store, "kev", t)
         IN  IF ~c.ok THEN [how |-> "refused", store |-> c.store, cves |-> KevStale(kc)]
             ELSE [how |-> "fetch", store |-> c.store, cves |-> NoCves]

\* shodan.vulns.reduce((sum, cve) => sum + (kevCves.has(cve.toUpperCase()) ? 1 : 0), 0)
KevHits(shodan, kev) ==
    IF shodan.vulnCount > 0 /\ kev.some THEN Cardinality(shodan.vulns \cap kev.cves)
    ELSE NULL_NUM

-----------------------------------------------------------------------------
(* Threat-intel cache *)

CacheKey(domain, ip) == <<domain, IF ip = NULL_IP THEN "no-ip" ELSE ip>>

\* cached && cached.expiresAt > Date.now()
CacheFreshInverted(cache, key, t) == key \in DOMAIN cache /\ cache[key].expiresAt < t
CacheFresh(cache, key, t) == key \in DOMAIN cache /\ cache[key].expiresAt > t

SweepCache(m, t) == [x \in {k \in DOMAIN m : ~(m[k].expiresAt < t)} |-> m[x]]

\* A round counts as successful when at least one source answered.
RoundFailed(data) ==
    /\ ~data.urlhaus.available
    /\ ~data.threatfox.available
    /\ ~data.shodan.available
    /\ ~data.abuseipdb.available

\* threatIntelCache.set(cacheKey, {data: result, expiresAt: Date.now() + TTL})
StoreRoundKeepFirst(cache, key, data, t) ==
    IF key \in DOMAIN cache THEN cache
    ELSE MapSet(cache, key, [data |-> data, expiresAt |-> t + THREAT_INTEL_CACHE_TTL_MS])
StoreRound(cache, key, data, t) ==
    MapSet(cache, key, [data |-> data, expiresAt |-> t + THREAT_INTEL_CACHE_TTL_MS])

-----------------------------------------------------------------------------
(* Signal mappers *)

severityFromBandNoNeutral(band) ==
    IF band = "green" THEN "success"
    ELSE IF band = "amber" THEN "warning"
    ELSE "error"
severityFromBand(band) ==
    IF band = "green" THEN "success"
    ELSE IF band = "amber" THEN "warning"
    ELSE IF band = "red" THEN "error"
    ELSE "neutral"

makeSignal(verdict, teaser, confidence) ==
    [verdict |-> verdict, severity |-> severityFromBand(verdict),
     teaser |-> teaser, confidence |-> confidence]

IsNumber(x) == x # NULL_NUM

mapLiveThreatSignalFourIocs(raw) ==
    LET urlhausHits   == raw.urlhaus.hits
        threatfoxHits == raw.threatfox.hits
        abuseScore    == raw.abuseipdb.abuseScore
        hasHighThreat == \/ urlhausHits > 0
                         \/ threatfoxHits >= 4
                         \/ (IsNumber(abuseScore) /\ abuseScore >= 70)
        hasMediumThreat == threatfoxHits > 0 \/ (IsNumber(abuseScore) /\ abuseScore >= 35)
    IN  IF hasHighThreat THEN makeSignal("red", "liveThreat: active indicators", "high")
        ELSE IF hasMediumThreat THEN makeSignal("amber", "liveThreat: elevated", "medium")
        ELSE IF raw.urlhaus.available \/ raw.threatfox.available \/ raw.abuseipdb.available
        THEN makeSignal("green", "liveThreat: no direct signal in the feeds that answered", "medium")
        ELSE makeSignal("gray", "liveThreat: feeds did not answer in time", "low")
mapLiveThreatSignal(raw) ==
    LET urlhausHits   == raw.urlhaus.hits
        threatfoxHits == raw.threatfox.hits
        abuseScore    == raw.abuseipdb.abuseScore
        hasHighThreat == \/ urlhausHits > 0
                         \/ threatfoxHits >= 3
                         \/ (IsNumber(abuseScore) /\ abuseScore >= 70)
        hasMediumThreat == threatfoxHits > 0 \/ (IsNumber(abuseScore) /\ abuseScore >= 35)
    IN  IF hasHighThreat THEN makeSignal("red", "liveThreat: active indicators", "high")
        ELSE IF hasMediumThreat THEN makeSignal("amber", "liveThreat: elevated", "medium")
        ELSE IF raw.urlhaus.available \/ raw.threatfox.available \/ raw.abuseipdb.available
        THEN makeSignal("green", "liveThreat: no direct signal in the feeds that answered", "medium")
        ELSE makeSignal("gray", "liveThreat: feeds did not answer in time", "low")

mapExposedServicesSignalNoGuard(raw) ==
    IF raw.shodan.portCount >= 8 THEN makeSignal("red", "exposedServices: broad", "medium")
    ELSE IF raw.shodan.portCount >= 3 THEN makeSignal("amber", "exposedServices: several", "medium")
    ELSE makeSignal("green", "exposedServices: none broad", "medium")
mapExposedServicesSignal(raw) ==
    IF ~raw.shodan.available THEN makeSignal("gray", "exposedServices: not loaded in time", "low")
    ELSE IF raw.shodan.portCount >= 8 THEN makeSignal("red", "exposedServices: broad", "medium")
    ELSE IF raw.shodan.portCount >= 3 THEN makeSignal("amber", "exposedServices: several", "medium")
    ELSE makeSignal("green", "exposedServices: none broad", "medium")

mapExploitedRiskSignalCountFirst(raw) ==
    IF ~raw.shodan.available THEN makeSignal("gray", "exploitedRisk: could not be assessed", "low")
    ELSE IF raw.shodan.vulnCount > 1
    THEN makeSignal("amber", "exploitedRisk: vulnerability signal", "medium")
    ELSE IF IsNumber(raw.kevHits) /\ raw.kevHits > 0
    THEN makeSignal("red", "exploitedRisk: matches exploited vulnerabilities", "high")
    ELSE IF raw.shodan.vulnCount > 0
    THEN makeSignal("amber", "exploitedRisk: vulnerability signal", "medium")
    ELSE makeSignal("green", "exploitedRisk: no direct signal", "medium")
mapExploitedRiskSignal(raw) ==
    IF ~raw.shodan.available THEN makeSignal("gray", "exploitedRisk: could not be assessed", "low")
    ELSE IF IsNumber(raw.kevHits) /\ raw.kevHits > 0
    THEN makeSignal("red", "exploitedRisk: matches exploited vulnerabilities", "high")
    ELSE IF raw.shodan.vulnCount > 0
    THEN makeSignal("amber", "exploitedRisk: vulnerability signal", "medium")
    ELSE makeSignal("green", "exploitedRisk: no direct signal", "medium")

bandScoreFlat(band) == IF band = "red" THEN 1 ELSE IF band = "amber" THEN 1 ELSE 0
bandScore(band) == IF band = "red" THEN 2 ELSE IF band = "amber" THEN 1 ELSE 0

\* signals.reduce((sum, signal) => sum + bandScore(signal.verdict), 0)
RECURSIVE SumScores(_)
SumScores(s) == IF s = <<>> THEN 0 ELSE bandScore(Head(s).verdict) + SumScores(Tail(s))

overallFromSignals(s) ==
    LET total == SumScores(s)
    IN  IF total >= 7 THEN [overallVerdict |-> "risk", pressureBand |-> "high"]
        ELSE IF total >= 3 THEN [overallVerdict |-> "attention", pressureBand |-> "medium"]
        ELSE [overallVerdict |-> "secure", pressureBand |-> "low"]

-----------------------------------------------------------------------------
(* checkThreatIntel: the calls in flight *)

Tasks == {1, 2}

\* A behaviour holds at most MaxBursts bursts of requests for other domains, which
\* come first, and then at most MaxCalls calls of checkThreatIntel for the domains
\* followed.
MaxCalls == 2
MaxBursts == 3
MaxReports == 1
MaxInFlight == 1
MaxListed == 2

\* The domain whose cache entries are followed.
Domains == {"d1.example"}
PrimaryIps == {NULL_IP, "192.0.2.1"}

\* Clock values: the boundaries of the first budget window and of the first cache TTL.
IntelInstants == {0, UPSTREAM_RATE_WINDOW_MS + 1, THREAT_INTEL_CACHE_TTL_MS}

\* What the upstream sources can answer.
Worlds ==
    {[urlhausHits |-> 0, threatfoxHits |-> 0, abuseScore |-> 0,
      ports |-> 0, vulns |-> {}, kev |-> {"CVE-1"}],
     [urlhausHits |-> 1, threatfoxHits |-> 0, abuseScore |-> 0,
      ports |-> 3, vulns |-> {"CVE-1", "CVE-2"}, kev |-> {"CVE-1"}]}

NoData ==
    [urlhaus |-> UrlhausUnavailable, threatfox |-> ThreatFoxUnavailable,
     shodan |-> ShodanUnavailable, abuseipdb |-> AbuseIpdbUnavailable, kevHits |-> NULL_NUM]

IdleTask ==
    [pc |-> "idle", domain |-> "", ip |-> NULL_IP, inflight |-> {}, refused |-> {},
     data |-> NoData]

NoSignal == makeSignal("gray", "none", "low")

NoObs ==
    [op |-> "init", task |-> 0, key |-> <<"", "">>, effects |-> {}, refused |-> {},
     returned |-> FALSE, hit |-> FALSE, kev |-> "none", data |-> NoData,
     liveThreat |-> NoSignal, exposedServices |-> NoSignal, exploitedRisk |-> NoSignal]

\* A step that returns nothing to the handler.
Step(op, k, key, effects, refused) ==
    [NoObs EXCEPT !.op = op, !.task = k, !.key = key, !.effects = effects, !.refused = refused]

\* checkThreatIntel returns data and the handler maps it to the three signals.
Returned(op, k, key, effects, refused, hit, kev, data) ==
    [op |-> op, task |-> k, key |-> key, effects |-> effects, refused |-> refused,
     returned |-> TRUE, hit |-> hit, kev |-> kev, data |-> data,
     liveThreat |-> mapLiveThreatSignal(data),
     exposedServices |-> mapExposedServicesSignal(data),
     exploitedRisk |-> mapExploitedRiskSignal(data)]

\* checkThreatIntel(domain, ip) up to its first await: the cache lookup and, on a
\* miss, the synchronous part of the four clients.
IntelStart(k, domain, ip) ==
    LET key == CacheKey(domain, ip)
        sc  == StartClients(upstreamRateStore, issued, RoundSources(ip), now)
    IN  /\ tasks[k].pc = "idle"
        /\ run.calls < MaxCalls
        /\ run' = [run EXCEPT !.calls = @ + 1]
        /\ IF CacheFresh(threatIntelCache, key, now)
           THEN /\ obs' = Returned("checkThreatIntel", k, key, {}, {}, TRUE, "none",
                                   threatIntelCache[key].data)
                /\ UNCHANGED <<upstreamRateStore, threatIntelCache, tasks, issued>>
           ELSE /\ threatIntelCache' =
                      IF Cardinality(DOMAIN threatIntelCache) > THREAT_INTEL_SWEEP_SIZE
                      THEN SweepCache(threatIntelCache, now) ELSE threatIntelCache
                /\ upstreamRateStore' = sc.store
                /\ issued' = sc.issued
                /\ tasks' = [tasks EXCEPT ![k] =
                               [pc |-> "fetching", domain |-> domain, ip |-> ip,
                                inflight |-> sc.granted, refused |-> sc.refused,
                                data |-> NoData]]
                /\ obs' = Step("checkThreatIntel", k, key, sc.granted, sc.refused)
        /\ UNCHANGED <<kevCache, world>>

\* The end of a round: kevHits, the cache write and the return.
FinishRound(op, k, data4, kev, how, effects, refused) ==
    LET key  == CacheKey(tasks[k].domain, tasks[k].ip)
        data == [data4 EXCEPT !.kevHits = KevHits(data4.shodan, kev)]
    IN  /\ threatIntelCache' = StoreRound(threatIntelCache, key, data, now)
        /\ tasks' = [tasks EXCEPT ![k] = IdleTask]
        /\ obs' = Returned(op, k, key, effects, refused, FALSE, how, data)

\* if (shodan.vulnCount > 0)
HasVulnsAlways(shodan) == TRUE
HasVulns(shodan) == shodan.vulnCount > 0

\* Promise.all settles: every issued fetch answered or failed (timeout, non-2xx,
\* unparsable body); then getKevCves up to its first await.
IntelJoin(k) ==
    /\ tasks[k].pc = "fetching"
    /\ \E answered \in SUBSET tasks[k].inflight :
         LET data4 == [urlhaus   |-> UrlhausResult(world, "urlhaus" \in answered),
                       threatfox |-> ThreatFoxResult(world, "threatfox" \in answered),
                       shodan    |-> ShodanResult(world, "shodan" \in answered),
                       abuseipdb |-> AbuseIpdbResult(world, "abuseipdb" \in answered),
                       kevHits   |-> NULL_NUM]
             g == getKevCvesStart(kevCache, upstreamRateStore, now)
         IN  IF HasVulns(data4.shodan)
             THEN /\ upstreamRateStore' = g.store
                  /\ IF g.how = "fetch"
                     THEN /\ issued' = NoteIssued(issued, "kev", now)
                          /\ tasks' = [tasks EXCEPT ![k].pc = "kev", ![k].data = data4,
                                                    ![k].inflight = {"kev"}]
                          /\ obs' = Step("join", k, CacheKey(tasks[k].domain, tasks[k].ip),
                                         {"kev"}, tasks[k].refused)
                          /\ UNCHANGED threatIntelCache
                     ELSE /\ FinishRound("join", k, data4, g.cves, g.how, {},
                                         tasks[k].refused \cup
                                           (IF g.how = "refused" THEN {"kev"} ELSE {}))
                          /\ UNCHANGED issued
             ELSE /\ FinishRound("join", k, data4, NoCves, "none", {}, tasks[k].refused)
                  /\ UNCHANGED <<upstreamRateStore, issued>>
    /\ UNCHANGED <<kevCache, world, run>>

\* The KEV feed fetch settles: the catalog is parsed and cached, or the call fails.
IntelKev(k) ==
    /\ tasks[k].pc = "kev"
    /\ \E answered \in BOOLEAN :
         /\ kevCache' = IF answered
                        THEN [valid |-> TRUE, cves |-> world.kev,
                              expiresAt |-> now + KEV_CACHE_TTL_MS]
                        ELSE kevCache
         /\ FinishRound("kev", k, tasks[k].data,
                        IF answered THEN [some |-> TRUE, cves |-> world.kev] ELSE NoCves,
                        IF answered THEN "fetch" ELSE "failed", {}, tasks[k].refused)
    /\ UNCHANGED <<upstreamRateStore, issued, world, run>>

\* Requests of other callers for domains outside Domains, a new domain each: one
\* caller's full window of them.  Each one misses the cache and starts its clients.
RECURSIVE OtherRounds(_, _, _, _, _)
OtherRounds(store, iss, ip, t, n) ==
    IF n = 0 THEN [store |-> store, issued |-> iss]
    ELSE CHOOSE r \in { OtherRounds(sc.store, sc.issued, ip, t, n - 1) :
                          sc \in {StartClients(store, iss, RoundSources(ip), t)} } : TRUE

OtherBurst(ip) ==
    LET r == OtherRounds(upstreamRateStore, issued, ip, now, RATE_LIMIT_MAX_REQUESTS)
    IN  /\ run.bursts < MaxBursts /\ run.calls = 0
        /\ run' = [run EXCEPT !.bursts = @ + 1]
        /\ upstreamRateStore' = r.store
        /\ issued' = r.issued
        /\ obs' = Step("other", 0, <<"", "">>, {}, {})
        /\ UNCHANGED <<threatIntelCache, kevCache, world, tasks>>

\* getKevCves called for each of them while the KEV feed is down.
RECURSIVE OtherKevCalls(_, _, _, _, _)
OtherKevCalls(kc, store, iss, t, n) ==
    IF n = 0 THEN [store |-> store, issued |-> iss]
    ELSE CHOOSE r \in { OtherKevCalls(kc, g.store,
                                       IF g.how = "fetch" THEN NoteIssued(iss, "kev", t) ELSE iss,
                                       t, n - 1) :
                          g \in {getKevCvesStart(kc, store, t)} } : TRUE

OtherKev ==
    LET r == OtherKevCalls(kevCache, upstreamRateStore, issued, now, RATE_LIMIT_MAX_REQUESTS)
    IN  /\ ~KevCacheFresh(kevCache, now)
        /\ run.bursts < MaxBursts /\ run.calls = 0
        /\ run' = [run EXCEPT !.bursts = @ + 1]
        /\ upstreamRateStore' = r.store
        /\ issued' = r.issued
        /\ obs' = Step("otherKev", 0, <<"", "">>, {}, {})
        /\ UNCHANGED <<threatIntelCache, kevCache, world, tasks>>

-----------------------------------------------------------------------------
(* DNS lookups and strings *)

\* How a lookup ends: with records, with an empty answer, rejected because the name
\* has no such records (ENODATA, ENOTFOUND), rejected by a failure (SERVFAIL,
\* network error), or not at all within DNS_TIMEOUT_MS.
DnsStates == {"records", "empty", "nodata", "fail", "timeout"}

Answer(state, records) == [state |-> state, records |-> records]

\* withTimeout(promise, ms): the records, null after the timeout, or the rejection.
withTimeout(answer) ==
    CASE answer.state = "records" -> [kind |-> "value", records |-> answer.records]
      [] answer.state = "empty"   -> [kind |-> "value", records |-> <<>>]
      [] answer.state = "timeout" -> [kind |-> "null",  records |-> <<>>]
      [] OTHER                    -> [kind |-> "throw", records |-> <<>>]

safeResolveNoCatch(answer) == withTimeout(answer)
\* safeResolveTxt, safeResolveMx, safeResolve4: a rejection becomes null.
safeResolve(answer) ==
    IF withTimeout(answer).kind = "throw"
    THEN [kind |-> "null", records |-> <<>>]
    ELSE withTimeout(answer)

\* result && result.length > 0
HasRecords(result) == result.kind = "value" /\ Len(result.records) > 0

UpperLetters ==
    {"A", "B", "C", "D", "E", "F", "G", "H", "I", "J", "K", "L", "M",
     "N", "O", "P", "Q", "R", "S", "T", "U", "V", "W", "X", "Y", "Z"}
LowerLetters ==
    {"a", "b", "c", "d", "e", "f", "g", "h", "i", "j", "k", "l", "m",
     "n", "o", "p", "q", "r", "s", "t", "u", "v", "w", "x", "y", "z"}
Digits == {"0", "1", "2", "3", "4", "5", "6", "7", "8", "9"}

LowerChar(c) ==
    CASE c = "A" -> "a" [] c = "B" -> "b" [] c = "C" -> "c" [] c = "D" -> "d"
      [] c = "E" -> "e" [] c = "F" -> "f" [] c = "G" -> "g" [] c = "H" -> "h"
      [] c = "I" -> "i" [] c = "J" -> "j" [] c = "K" -> "k" [] c = "L" -> "l"
      [] c = "M" -> "m" [] c = "N" -> "n" [] c = "O" -> "o" [] c = "P" -> "p"
      [] c = "Q" -> "q" [] c = "R" -> "r" [] c = "S" -> "s" [] c = "T" -> "t"
      [] c = "U" -> "u" [] c = "V" -> "v" [] c = "W" -> "w" [] c = "X" -> "x"
      [] c = "Y" -> "y" [] c = "Z" -> "z"
      [] OTHER -> c

\* String.prototype.toLowerCase on ASCII strings
RECURSIVE toLowerCase(_)
toLowerCase(str) ==
    IF Len(str) = 0 THEN ""
    ELSE IF Len(str) = 1 THEN LowerChar(str)
    ELSE toLowerCase(SubSeq(str, 1, Len(str) \div 2))
         \o toLowerCase(SubSeq(str, Len(str) \div 2 + 1, Len(str)))

\* String.prototype.startsWith
startsWith(str, prefix) ==
    Len(str) >= Len(prefix) /\ SubSeq(str, 1, Len(prefix)) = prefix

\* String.prototype.includes
includes(str, sub) ==
    \E i \in 1..(Len(str) - Len(sub) + 1) : SubSeq(str, i, i + Len(sub) - 1) = sub

\* Array.prototype.flat on the chunks of the TXT records
RECURSIVE flat(_)
flat(records) ==
    IF records = <<>> THEN <<>> ELSE Head(records) \o flat(Tail(records))

\* Array.prototype.join
RECURSIVE Join(_, _)
Join(parts, sep) ==
    IF Len(parts) = 0 THEN ""
    ELSE IF Len(parts) = 1 THEN parts[1]
    ELSE parts[1] \o sep \o Join(Tail(parts), sep)

Range(seq) == {seq[i] : i \in 1..Len(seq)}

\* txt?.flat().find(r => r.toLowerCase().startsWith(prefix)); "" when undefined
FindRecord(result, prefix) ==
    LET strs == IF result.kind = "value" THEN flat(result.records) ELSE <<>>
        hits == {i \in 1..Len(strs) : startsWith(toLowerCase(strs[i]), prefix)}
    IN  IF hits = {} THEN ""
        ELSE strs[CHOOSE i \in hits : \A j \in hits : i <= j]

-----------------------------------------------------------------------------
(* Base passive checks *)

\* checkEmailSecurity(domain) on the answers of the MX lookup, of the TXT lookup of
\* the domain and of the TXT lookup of _dmarc.domain.
checkEmailSecurity(mx, txt, dmarc) ==
    LET hasMX       == HasRecords(safeResolve(mx))
        spfRecord   == FindRecord(safeResolve(txt), "v=spf1")
        hasSPF      == spfRecord # ""
        spfEnforcement ==
            IF ~hasSPF THEN "none"
            ELSE IF includes(toLowerCase(spfRecord), "-all") THEN "strict"
            ELSE IF includes(toLowerCase(spfRecord), "~all") THEN "soft"
            ELSE IF includes(toLowerCase(spfRecord), "?all") THEN "neutral"
            ELSE "none"
        dmarcRecord == FindRecord(safeResolve(dmarc), "v=dmarc1")
        dmarcPolicy ==
            IF dmarcRecord = "" THEN "missing"
            ELSE IF includes(toLowerCase(dmarcRecord), "p=reject") THEN "reject"
            ELSE IF includes(toLowerCase(dmarcRecord), "p=quarantine") THEN "quarantine"
            ELSE IF includes(toLowerCase(dmarcRecord), "p=none") THEN "none"
            ELSE "missing"
    IN  IF ~hasMX
        THEN [raw |-> [verdict |-> "not_applicable", severity |-> "info", riskLevel |-> 0],
              lookups |-> <<"mx">>]
        ELSE [raw |->
                IF dmarcPolicy \in {"reject", "quarantine"}
                THEN [verdict |-> "protected", severity |-> "success", riskLevel |-> 0]
                ELSE IF dmarcPolicy = "none"
                THEN [verdict |-> "not_protected", severity |-> "critical", riskLevel |-> 3]
                ELSE IF hasSPF /\ spfEnforcement = "strict"
                THEN [verdict |-> "partial", severity |-> "warning", riskLevel |-> 1]
                ELSE IF hasSPF /\ spfEnforcement \in {"soft", "neutral"}
                THEN [verdict |-> "partial", severity |-> "warning", riskLevel |-> 2]
                ELSE [verdict |-> "not_protected", severity |-> "critical", riskLevel |-> 3],
              lookups |-> <<"mx", "txt", "dmarc">>]

mapEmailSignal(raw) ==
    IF raw.verdict = "protected" THEN makeSignal("green", "email: no acute indication", "high")
    ELSE IF raw.verdict = "partial" THEN makeSignal("amber", "email: weaknesses", "high")
    ELSE IF raw.verdict = "not_protected" THEN makeSignal("red", "email: can be imitated", "high")
    ELSE makeSignal("gray", "email: insufficient signal", "low")

IP_BLACKLISTS ==
    <<"zen.spamhaus.org", "bl.spamcop.net", "dnsbl.sorbs.net", "b.barracudacentral.org",
      "spam.dnsbl.sorbs.net", "cbl.abuseat.org", "dnsbl-1.uceprotect.net">>

DOMAIN_BLACKLISTS == <<"dbl.spamhaus.org", "multi.surbl.org">>

\* Ranges as base address and prefix length.
CLOUDFLARE_IPS ==
    { <<<<173, 245, 48, 0>>, 20>>, <<<<103, 21, 244, 0>>, 22>>, <<<<103, 22, 200, 0>>, 22>>,
      <<<<103, 31, 4, 0>>, 22>>, <<<<141, 101, 64, 0>>, 18>>, <<<<108, 162, 192, 0>>, 18>>,
      <<<<190, 93, 240, 0>>, 20>>, <<<<188, 114, 96, 0>>, 20>>, <<<<197, 234, 240, 0>>, 22>>,
      <<<<198, 41, 128, 0>>, 17>>, <<<<162, 158, 0, 0>>, 15>>, <<<<104, 16, 0, 0>>, 13>>,
      <<<<104, 24, 0, 0>>, 14>>, <<<<172, 64, 0, 0>>, 13>>, <<<<131, 27, 0, 0>>, 16>> }

\* ipToLong, kept as its upper and lower 16 bits.
ipToLong(ip) == <<ip[1] * 256 + ip[2], ip[3] * 256 + ip[4]>>

\* value & bitmask for the bitmask of a prefix length: the bits below the prefix
\* are cleared.
MaskTo(long, mask) ==
    IF mask <= 16
    THEN <<(long[1] \div 2^(16 - mask)) * 2^(16 - mask), 0>>
    ELSE <<long[1], (long[2] \div 2^(32 - mask)) * 2^(32 - mask)>>

isCloudflareIP(ip) ==
    \E range \in CLOUDFLARE_IPS :
        MaskTo(ipToLong(range[1]), range[2]) = MaskTo(ipToLong(ip), range[2])

\* The lookups safeResolve4 is called for, in order, and the number of them that
\* returned an address.
Listed(lists, answers) ==
    Cardinality({i \in 1..Len(lists) : HasRecords(safeResolve(answers[lists[i]]))})

\* checkBlacklists(domain) on the answer of the A lookup of the domain and on the
\* answers of the blacklist zones.
checkBlacklists(a, answers) ==
    LET ips   == safeResolve(a)
        ip    == ips.records[1]
        isCDN == isCloudflareIP(ip)
        ipLists == IF isCDN THEN <<>> ELSE IP_BLACKLISTS
        totalListed == Listed(ipLists, answers) + Listed(DOMAIN_BLACKLISTS, answers)
    IN  IF ~HasRecords(ips)
        THEN [raw |-> [verdict |-> "clean", severity |-> "success", listedCount |-> 0,
                       note |-> FALSE],
              lookups |-> <<"a">>]
        ELSE [raw |->
                IF totalListed > 0
                THEN [verdict |-> "listed", severity |-> "critical",
                      listedCount |-> totalListed, note |-> FALSE]
                ELSE [verdict |-> "clean", severity |-> "success", listedCount |-> 0,
                      note |-> isCDN],
              lookups |-> <<"a">> \o ipLists \o DOMAIN_BLACKLISTS]

CDN_AGGRESSIVE_LISTS ==
    {"dnsbl-1.uceprotect.net", "dnsbl.sorbs.net", "spam.dnsbl.sorbs.net",
     "b.barracudacentral.org"}

\* checkBlacklists of the quickcheck route: every IP blacklist is looked up, and a
\* hit on an aggressive list is ignored for a CDN address.
checkBlacklistsQuick(a, answers) ==
    LET ips   == safeResolve(a)
        ip    == ips.records[1]
        isCDN == isCloudflareIP(ip)
        hits  == {i \in 1..Len(IP_BLACKLISTS) :
                    HasRecords(safeResolve(answers[IP_BLACKLISTS[i]]))}
        ignored == {i \in hits : isCDN /\ IP_BLACKLISTS[i] \in CDN_AGGRESSIVE_LISTS}
        totalListed == Cardinality(hits \ ignored) + Listed(DOMAIN_BLACKLISTS, answers)
    IN  IF ~HasRecords(ips)
        THEN [raw |-> [verdict |-> "clean", severity |-> "success", listedCount |-> 0,
                       note |-> FALSE],
              lookups |-> <<"a">>]
        ELSE [raw |->
                IF totalListed > 0
                THEN [verdict |-> "listed", severity |-> "critical",
                      listedCount |-> totalListed, note |-> FALSE]
                ELSE [verdict |-> "clean", severity |-> "success", listedCount |-> 0,
                      note |-> isCDN /\ ignored # {}],
              lookups |-> <<"a">> \o IP_BLACKLISTS \o DOMAIN_BLACKLISTS]

mapBlacklistSignal(raw) ==
    IF raw.verdict = "listed" THEN makeSignal("red", "blacklist: listed", "high")
    ELSE IF raw.verdict = "clean" THEN makeSignal("green", "blacklist: not listed", "medium")
    ELSE makeSignal("gray", "blacklist: insufficient signal", "low")

\* checkDNSArmor(domain) on the answer of the CAA lookup.
checkDNSArmor(caa) ==
    LET result   == withTimeout(caa)
        hasArmor == result.kind # "null" /\ Len(result.records) > 0
    IN  IF result.kind = "throw"
        THEN [raw |-> [verdict |-> "unknown", severity |-> "neutral", riskLevel |-> 0],
              lookups |-> <<"caa">>]
        ELSE [raw |-> [verdict   |-> IF hasArmor THEN "hardened" ELSE "missing",
                       severity  |-> IF hasArmor THEN "success" ELSE "warning",
                       riskLevel |-> IF hasArmor THEN 0 ELSE 1],
              lookups |-> <<"caa">>]

mapDnsArmorSignal(raw) ==
    IF raw.verdict = "hardened" THEN makeSignal("green", "dns armor: modern", "high")
    ELSE IF raw.verdict = "missing" THEN makeSignal("amber", "dns armor: layer missing", "high")
    ELSE makeSignal("gray", "dns armor: not verified", "low")

\* String.prototype.replace(/c/g, by) for a single character c
RECURSIVE replaceAll(_, _, _)
replaceAll(str, c, by) ==
    IF Len(str) = 0 THEN ""
    ELSE (IF SubSeq(str, 1, 1) = c THEN by ELSE SubSeq(str, 1, 1))
         \o replaceAll(SubSeq(str, 2, Len(str)), c, by)

\* The lookalike candidates of a domain, given as its labels.
typos(domain) ==
    LET n    == Len(domain)
        name == Join(SubSeq(domain, 1, n - 1), ".")
        tld  == domain[n]
    IN  << name \o "s." \o tld,
           SubSeq(name, 1, Len(name) - 1) \o "." \o tld,
           "ww" \o name \o "." \o tld,
           replaceAll(name, "a", "4") \o "." \o tld,
           replaceAll(name, "o", "0") \o "." \o tld,
           replaceAll(name, "i", "1") \o "." \o tld >>

TYPO_EARLY_EXIT == 3

EarlyExitNever(resolvedCount) == FALSE
\* if (resolvedCount >= 3) break
EarlyExit(resolvedCount) == resolvedCount >= TYPO_EARLY_EXIT

\* The loop of checkTyposquats from candidate i on: the lookups issued and the
\* number of candidates that resolved.
RECURSIVE TypoLoop(_, _, _, _, _)
TypoLoop(candidates, answers, i, resolvedCount, lookups) ==
    IF i > Len(candidates) THEN [count |-> resolvedCount, lookups |-> lookups]
    ELSE LET a == safeResolve(answers[candidates[i]])
             c == IF HasRecords(a) THEN resolvedCount + 1 ELSE resolvedCount
         IN  IF EarlyExit(c)
             THEN [count |-> c, lookups |-> Append(lookups, candidates[i])]
             ELSE TypoLoop(candidates, answers, i + 1, c, Append(lookups, candidates[i]))

\* checkTyposquats(domain) on the answers of the A lookups of the candidates.
checkTyposquats(domain, answers) ==
    LET loop == TypoLoop(typos(domain), answers, 1, 0, <<>>)
    IN  [raw |-> [verdict  |-> IF loop.count = 0 THEN "safe" ELSE "risk_detected",
                  severity |-> IF loop.count = 0 THEN "success" ELSE "warning",
                  count    |-> loop.count],
         lookups |-> loop.lookups]

mapTyposquatSignal(raw) ==
    IF raw.verdict = "risk_detected"
    THEN IF raw.count >= 2 THEN makeSignal("red", "typosquat: several lookalikes", "medium")
         ELSE makeSignal("amber", "typosquat: possible lookalike", "medium")
    ELSE IF raw.verdict = "safe" THEN makeSignal("green", "typosquat: no lookalike", "medium")
    ELSE makeSignal("gray", "typosquat: insufficient signal", "low")

\* How a fetch ends: a 2xx response with a JSON array, a response that is not 2xx,
\* a 2xx response whose body is not JSON, or no response within FETCH_TIMEOUT_MS.
HttpStates == {"ok", "status", "malformed", "timeout"}

\* checkShadowInfrastructure(domain) on the response of crt.sh; size is the number
\* of distinct name_value entries of the array.
checkShadowInfrastructure(res) ==
    IF res.state # "ok"
    THEN [raw |-> [verdict |-> "unknown", severity |-> "neutral", count |-> 0],
          lookups |-> <<"crt.sh">>]
    ELSE LET count == res.size
         IN  [raw |-> [verdict  |-> IF count > 15 THEN "high_exposure"
                                    ELSE IF count > 5 THEN "monitored" ELSE "stable",
                       severity |-> IF count > 15 THEN "critical"
                                    ELSE IF count > 5 THEN "warning" ELSE "success",
                       count    |-> count],
              lookups |-> <<"crt.sh">>]

\* checkHistoricalFootprint(domain) on the response of web.archive.org; size is
\* the length of the array, header row included.
checkHistoricalFootprint(res) ==
    IF res.state # "ok"
    THEN [raw |-> [verdict |-> "unknown", severity |-> "neutral", count |-> 0],
          lookups |-> <<"web.archive.org">>]
    ELSE LET count == IF res.size - 1 > 0 THEN res.size - 1 ELSE 0
         IN  [raw |-> [verdict  |-> IF count > 50 THEN "deep_history"
                                    ELSE IF count > 20 THEN "visible" ELSE "minimal",
                       severity |-> IF count > 50 THEN "warning" ELSE "success",
                       count    |-> count],
              lookups |-> <<"web.archive.org">>]

mapShadowInfraSignal(raw) ==
    IF raw.verdict = "high_exposure" THEN makeSignal("red", "shadow: large surface", "medium")
    ELSE IF raw.verdict = "monitored" THEN makeSignal("amber", "shadow: extended", "medium")
    ELSE IF raw.verdict = "stable" THEN makeSignal("green", "shadow: limited", "medium")
    ELSE makeSignal("gray", "shadow: not determined", "low")

mapHistorySignalDefaultGreen(raw) ==
    IF raw.verdict = "deep_history" THEN makeSignal("amber", "history: older surfaces", "medium")
    ELSE IF raw.verdict = "visible" THEN makeSignal("amber", "history: moderate", "medium")
    ELSE makeSignal("green", "history: low footprint", "medium")
mapHistorySignal(raw) ==
    IF raw.verdict = "deep_history" THEN makeSignal("amber", "history: older surfaces", "medium")
    ELSE IF raw.verdict = "visible" THEN makeSignal("amber", "history: moderate", "medium")
    ELSE IF raw.verdict = "minimal" THEN makeSignal("green", "history: low footprint", "medium")
    ELSE makeSignal("gray", "history: no signal", "low")

-----------------------------------------------------------------------------
(* The six base checks of one report *)

\* How the resolver and the two HTTP sources behave while a report is built: every
\* lookup answered with records, answered without records, rejected, answered with
\* a body that is not JSON (HTTP only; DNS answers without records), or not
\* answered in time.
BatteryModes == {"answered", "absent", "failed", "malformed", "timeout"}

DnsFor(mode, records) ==
    CASE mode = "answered"  -> Answer("records", records)
      [] mode = "absent"    -> Answer("nodata", <<>>)
      [] mode = "failed"    -> Answer("fail", <<>>)
      [] mode = "malformed" -> Answer("empty", <<>>)
      [] OTHER              -> Answer("timeout", <<>>)

HttpFor(mode, size) ==
    CASE mode = "answered"  -> [state |-> "ok", size |-> size]
      [] mode = "absent"    -> [state |-> "ok", size |-> 0]
      [] mode = "failed"    -> [state |-> "status", size |-> 0]
      [] mode = "malformed" -> [state |-> "malformed", size |-> 0]
      [] OTHER              -> [state |-> "timeout", size |-> 0]

\* The answers of the lookups of the six checks for a domain, given as labels.
BatteryAnswers(domain, mode) ==
    [mx    |-> DnsFor(mode, <<"mx1.example.net">>),
     txt   |-> DnsFor(mode, << <<"v=spf1 mx -all">> >>),
     dmarc |-> DnsFor(mode, << <<"v=DMARC1; p=none">> >>),
     a     |-> DnsFor(mode, << <<93, 184, 216, 34>> >>),
     zones |-> [bl \in Range(IP_BLACKLISTS) \cup Range(DOMAIN_BLACKLISTS) |->
                  IF bl = "zen.spamhaus.org" THEN DnsFor(mode, <<"127.0.0.2">>)
                  ELSE DnsFor("absent", <<>>)],
     typo  |-> [c \in Range(typos(domain)) |-> DnsFor(mode, <<"203.0.113.7">>)],
     caa   |-> DnsFor(mode, <<"0 issue letsencrypt.org">>),
     crtsh |-> HttpFor(mode, 16),
     archive |-> HttpFor(mode, 52)]

\* A promise awaited outside a try block rejects: the rejection leaves the check
\* and makes the Promise.all of the handler reject.
BatteryRejects(w) ==
    \/ \E f \in {"mx", "txt", "dmarc", "a"} : safeResolve(w[f]).kind = "throw"
    \/ \E bl \in DOMAIN w.zones : safeResolve(w.zones[bl]).kind = "throw"
    \/ \E c \in DOMAIN w.typo : safeResolve(w.typo[c]).kind = "throw"

\* The raw results of the six checks, mapped to their signals.
BatterySignals(domain, w) ==
    << mapEmailSignal(checkEmailSecurity(w.mx, w.txt, w.dmarc).raw),
       mapBlacklistSignal(checkBlacklists(w.a, w.zones).raw),
       mapTyposquatSignal(checkTyposquats(domain, w.typo).raw),
       mapDnsArmorSignal(checkDNSArmor(w.caa).raw),
       mapShadowInfraSignal(checkShadowInfrastructure(w.crtsh).raw),
       mapHistorySignal(checkHistoricalFootprint(w.archive).raw) >>

-----------------------------------------------------------------------------
(* POST handler *)

\* The requests past the gate at one time; request r runs its checkThreatIntel call
\* as task r.
Reqs == 1..MaxInFlight

TURNSTILE_TEST_SECRET_PREFIX == "1x0000000000000000000000000000000"
TURNSTILE_TEST_SITE_KEY_PREFIX == "1x00000000000000000000"

isTurnstileTestSecretExact(secret) == secret = TURNSTILE_TEST_SECRET_PREFIX
isTurnstileTestSecret(secret) == startsWith(secret, TURNSTILE_TEST_SECRET_PREFIX)
isTurnstileTestSiteKey(siteKey) == startsWith(siteKey, TURNSTILE_TEST_SITE_KEY_PREFIX)

\* process.env: TURNSTILE_SECRET_KEY (unset, a test key or a live key), NODE_ENV and
\* NEXT_PUBLIC_TURNSTILE_SITE_KEY.
Envs ==
    {[secret |-> "live", production |-> TRUE, siteKey |-> "live"],
     [secret |-> "",     production |-> TRUE, siteKey |-> "live"],
     [secret |-> "1x0000000000000000000000000000000AA", production |-> TRUE, siteKey |-> "live"]}

\* Further deployments: a test site key, no site key, and the keys outside production.
ConfigEnvs ==
    Envs \cup
    {[secret |-> "live", production |-> TRUE,  siteKey |-> "1x00000000000000000000AA"],
     [secret |-> "live", production |-> TRUE,  siteKey |-> ""],
     [secret |-> "1x0000000000000000000000000000000AA", production |-> FALSE, siteKey |-> "1x00000000000000000000AA"],
     [secret |-> "",     production |-> FALSE, siteKey |-> ""]}

\* Request bodies: unparsable JSON, no token, a token Turnstile rejects (with a
\* domain or with a local name), and a token it accepts with a local name or with
\* a URL of the followed domain.
Bodies ==
    {[json |-> FALSE, turnstileToken |-> "",     domain |-> ""],
     [json |-> TRUE,  turnstileToken |-> "",     domain |-> "d1.example"],
     [json |-> TRUE,  turnstileToken |-> "bad",  domain |-> "d1.example"],
     [json |-> TRUE,  turnstileToken |-> "bad",  domain |-> "localhost"],
     [json |-> TRUE,  turnstileToken |-> "good", domain |-> "localhost"],
     [json |-> TRUE,  turnstileToken |-> "good", domain |-> "https://D1.Example/path"]}

\* The verdict of the Turnstile service on a token.
TurnstileSuccess(token) == token = "good"

-----------------------------------------------------------------------------
(* Domain normalisation *)

\* The position of the first occurrence of sub in str, 0 when there is none
indexOf(str, sub) ==
    LET hits == {i \in 1..(Len(str) - Len(sub) + 1) : SubSeq(str, i, i + Len(sub) - 1) = sub}
    IN  IF hits = {} THEN 0 ELSE CHOOSE i \in hits : \A j \in hits : i <= j

\* String.prototype.endsWith
endsWith(str, suffix) ==
    Len(str) >= Len(suffix) /\ SubSeq(str, Len(str) - Len(suffix) + 1, Len(str)) = suffix

\* .replace(/<[^>]*>/g, "")
RECURSIVE stripTags(_)
stripTags(str) ==
    LET lt   == indexOf(str, "<")
        rest == SubSeq(str, lt + 1, Len(str))
        gt   == indexOf(rest, ">")
    IN  IF lt = 0 \/ gt = 0 THEN str
        ELSE SubSeq(str, 1, lt - 1) \o stripTags(SubSeq(rest, gt + 1, Len(rest)))

\* .replace(/javascript:/gi, "")
RECURSIVE removeIgnoreCase(_, _)
removeIgnoreCase(str, pat) ==
    LET i == indexOf(toLowerCase(str), pat)
    IN  IF i = 0 THEN str
        ELSE SubSeq(str, 1, i - 1) \o removeIgnoreCase(SubSeq(str, i + Len(pat), Len(str)), pat)

\* \w
WordChars == UpperLetters \cup LowerLetters \cup Digits \cup {"_"}

\* The length of the longest run of \w characters of str from position i
RECURSIVE WordRun(_, _)
WordRun(str, i) ==
    IF i <= Len(str) /\ SubSeq(str, i, i) \in WordChars THEN 1 + WordRun(str, i + 1) ELSE 0

\* The length of the match of /on\w+=/i at position i of str, 0 when there is none
HandlerAt(str, i) ==
    IF /\ i + 1 <= Len(str)
       /\ toLowerCase(SubSeq(str, i, i + 1)) = "on"
       /\ WordRun(str, i + 2) >= 1
       /\ i + 2 + WordRun(str, i + 2) <= Len(str)
       /\ SubSeq(str, i + 2 + WordRun(str, i + 2), i + 2 + WordRun(str, i + 2)) = "="
    THEN WordRun(str, i + 2) + 3
    ELSE 0

\* .replace(/on\w+=/gi, "")
RECURSIVE stripHandlers(_)
stripHandlers(str) ==
    LET hits == {i \in 1..Len(str) : HandlerAt(str, i) > 0}
        i    == CHOOSE h \in hits : \A k \in hits : h <= k
    IN  IF hits = {} THEN str
        ELSE SubSeq(str, 1, i - 1) \o stripHandlers(SubSeq(str, i + HandlerAt(str, i), Len(str)))

\* .replace(/[<>"'...]/g, ""): the characters of chars are dropped
RECURSIVE removeChars(_, _)
removeChars(str, chars) ==
    IF Len(str) = 0 THEN ""
    ELSE IF Len(str) = 1 THEN (IF str \in chars THEN "" ELSE str)
    ELSE removeChars(SubSeq(str, 1, Len(str) \div 2), chars)
         \o removeChars(SubSeq(str, Len(str) \div 2 + 1, Len(str)), chars)

Whitespace == {" ", "\t", "\n", "\r"}

\* String.prototype.trim
RECURSIVE trim(_)
trim(str) ==
    IF Len(str) = 0 THEN ""
    ELSE IF SubSeq(str, 1, 1) \in Whitespace THEN trim(SubSeq(str, 2, Len(str)))
    ELSE IF SubSeq(str, Len(str), Len(str)) \in Whitespace THEN trim(SubSeq(str, 1, Len(str) - 1))
    ELSE str

\* .replace(/^https?:\/\//i, "")
stripScheme(str) ==
    IF startsWith(toLowerCase(str), "http://") THEN SubSeq(str, 8, Len(str))
    ELSE IF startsWith(toLowerCase(str), "https://") THEN SubSeq(str, 9, Len(str))
    ELSE str

\* .split(sep)[0]
firstPart(str, sep) ==
    IF indexOf(str, sep) = 0 THEN str ELSE SubSeq(str, 1, indexOf(str, sep) - 1)

\* .replace(/^\.+|\.+$/g, "")
RECURSIVE stripDots(_)
stripDots(str) ==
    IF Len(str) = 0 THEN ""
    ELSE IF SubSeq(str, 1, 1) = "." THEN stripDots(SubSeq(str, 2, Len(str)))
    ELSE IF SubSeq(str, Len(str), Len(str)) = "." THEN stripDots(SubSeq(str, 1, Len(str) - 1))
    ELSE str

\* String.prototype.split on a one-character separator
RECURSIVE split(_, _)
split(str, sep) ==
    IF indexOf(str, sep) = 0 THEN <<str>>
    ELSE <<SubSeq(str, 1, indexOf(str, sep) - 1)>>
         \o split(SubSeq(str, indexOf(str, sep) + 1, Len(str)), sep)

\* /^\d+$/ on a string of one to three characters
AllDigits(str) == \A i \in 1..Len(str) : SubSeq(str, i, i) \in Digits

\* /^\d{1,3}(\.\d{1,3}){3}$/.test(domain)
isDottedQuad(domain) ==
    /\ Len(split(domain, ".")) = 4
    /\ \A i \in 1..4 : /\ Len(split(domain, ".")[i]) \in 1..3
                       /\ AllDigits(split(domain, ".")[i])

AlnumChars == UpperLetters \cup LowerLetters \cup Digits

\* labelPattern without the anchors on the first and last character
labelPatternUnanchored(label) ==
    /\ Len(label) >= 1
    /\ \A i \in 1..Len(label) : SubSeq(label, i, i) \in AlnumChars \cup {"-"}

\* /^[a-z0-9]([a-z0-9-]*[a-z0-9])?$/i.test(label) || /^[a-z0-9]$/i.test(label)
labelPattern(label) ==
    /\ Len(label) >= 1
    /\ SubSeq(label, 1, 1) \in AlnumChars
    /\ SubSeq(label, Len(label), Len(label)) \in AlnumChars
    /\ \A i \in 1..Len(label) : SubSeq(label, i, i) \in AlnumChars \cup {"-"}

\* The first clean-up chain of normalizeAndValidateDomain (the backquote of the
\* removed class is no character of the strings followed here)
sanitize(input) ==
    toLowerCase(trim(removeChars(stripHandlers(removeIgnoreCase(stripTags(input), "javascript:")),
                                 {"<", ">", "\"", "'"})))

\* The second chain: scheme, path, query, fragment, port, outer dots
hostOf(str) ==
    stripDots(firstPart(firstPart(firstPart(firstPart(stripScheme(str), "/"), "?"), "#"), ":"))

Invalid(error) == [valid |-> FALSE, domain |-> "", error |-> error]

\* The checks of normalizeAndValidateDomain on the cleaned domain
validateDomain(domain) ==
    LET labels == split(domain, ".")
    IN  IF domain = "" THEN Invalid("Ogiltig doman")
        ELSE IF isDottedQuad(domain) THEN Invalid("IP-adresser stods inte")
        ELSE IF domain = "localhost" \/ endsWith(domain, ".local") \/ endsWith(domain, ".localhost")
        THEN Invalid("Lokala domaner stods inte")
        ELSE IF Len(domain) > 253 THEN Invalid("Domanen ar for lang")
        ELSE IF Len(labels) < 2 THEN Invalid("Ogiltig doman - TLD saknas")
        ELSE IF \E i \in 1..Len(labels) : labels[i] = "" \/ Len(labels[i]) > 63
        THEN Invalid("Ogiltig doman - felaktig etikett")
        ELSE IF \E i \in 1..Len(labels) : ~labelPattern(labels[i])
        THEN Invalid("Ogiltig doman - otillatna tecken")
        ELSE [valid |-> TRUE, domain |-> domain, error |-> ""]

normalizeAndValidateDomain(input) ==
    IF input = "" THEN Invalid("Doman kravs")
    ELSE validateDomain(hostOf(sanitize(input)))

\* normalizeAndValidateDomain on the domains of Bodies
BodyValidation ==
    [input \in {b.domain : b \in Bodies} |-> normalizeAndValidateDomain(input)]

IdleReq ==
    [pc |-> "idle", ip |-> "", allowed |-> TRUE, body |-> [json |-> FALSE, turnstileToken |-> "", domain |-> ""],
     domain |-> "", intelDone |-> FALSE, intel |-> NoData]

NoAct ==
    [op |-> "init", req |-> 0, ip |-> "", allowed |-> TRUE, effects |-> {},
     status |-> 0, retryAfter |-> NULL_NUM, error |-> "", domain |-> ""]

\* A step of request r that makes the external calls of effects and sends no response.
Act(op, r, effects) ==
    [NoAct EXCEPT !.op = op, !.req = r, !.ip = reqs[r].ip, !.allowed = reqs[r].allowed,
                  !.effects = effects]

\* The handler returns a response without a report.
Reply(op, r, status, error) ==
    /\ act' = [Act(op, r, {}) EXCEPT !.status = status, !.error = error]
    /\ reqs' = [reqs EXCEPT ![r] = IdleReq]

\* if (!rateLimit.allowed) return 429
GatePassesAlways(rateLimit) == TRUE
GatePasses(rateLimit) == rateLimit.allowed

\* A body that can take its request to the check battery.
ReachesBattery(b) ==
    b.json /\ TurnstileSuccess(b.turnstileToken) /\ BodyValidation[b.domain].valid

\* POST up to its first await: the rate-limit gate.  A request that passes it takes
\* the lowest free slot of reqs.
PostArrive(ip, body) ==
    /\ ReachesBattery(body) =>
         run.calls + Cardinality({q \in Reqs : reqs[q].pc \in {"json", "verify", "resolve"}
                                                /\ ReachesBattery(reqs[q].body)}) < MaxReports
    /\ GateCall(ip)
    /\ LET arrived == [NoAct EXCEPT !.op = "POST", !.ip = ip, !.allowed = rlLast'.allowed]
       IN  IF GatePasses(rlLast')
           THEN \E r \in Reqs :
                   /\ reqs[r].pc = "idle"
                   /\ \A q \in Reqs : q < r => reqs[q].pc # "idle"
                   /\ reqs' = [reqs EXCEPT ![r] = [IdleReq EXCEPT !.pc = "json", !.ip = ip,
                                                                  !.allowed = rlLast'.allowed,
                                                                  !.body = body]]
                   /\ act' = [arrived EXCEPT !.req = r]
           ELSE /\ reqs' = reqs
                /\ act' = [arrived EXCEPT !.status = 429,
                                          !.error = "For manga forfragningar",
                                          !.retryAfter = CeilDiv(rlLast'.resetIn, 1000)]
    /\ UNCHANGED <<now, intelVars, verdictVars, weatherVars, checkVars, env>>

\* if (!secret)
SecretMissingNever(secret) == FALSE
SecretMissing(secret) == secret = ""

\* req.json() settles: the configuration and token checks, then the Turnstile call.
PostBody(r) ==
    LET b == reqs[r].body
    IN  /\ reqs[r].pc = "json"
        /\ IF ~b.json
           THEN Reply("json", r, 500, "Internt serverfel")
           ELSE IF SecretMissing(env.secret)
           THEN Reply("json", r, 500, "Sakerhetskonfiguration saknas")
           ELSE IF env.production /\ (isTurnstileTestSecret(env.secret)
                                      \/ (env.siteKey # "" /\ isTurnstileTestSiteKey(env.siteKey)))
           THEN Reply("json", r, 500, "Sakerhetskonfiguration ogiltig for produktionslage")
           ELSE IF b.turnstileToken = ""
           THEN Reply("json", r, 401, "Captcha kravs")
           ELSE /\ reqs' = [reqs EXCEPT ![r].pc = "verify"]
                /\ act' = Act("json", r, {"turnstile"})
        /\ UNCHANGED <<now, limiterVars, intelVars, verdictVars, weatherVars, checkVars, env>>

\* if (!validation.valid || !validation.domain)
DomainRejectedNever(validation) == FALSE
DomainRejected(validation) == ~validation.valid \/ validation.domain = ""

\* The Turnstile call settles: the verdict, the domain validation, then getPrimaryIp.
PostVerify(r) ==
    LET b          == reqs[r].body
        validation == BodyValidation[b.domain]
    IN  /\ reqs[r].pc = "verify"
        /\ \E answered \in BOOLEAN :
             IF ~answered
             THEN Reply("verify", r, 500, "Internt serverfel")
             ELSE IF ~TurnstileSuccess(b.turnstileToken)
             THEN Reply("verify", r, 401, "Captcha verifiering misslyckades")
             ELSE IF DomainRejected(validation)
             THEN Reply("verify", r, 400, validation.error)
             ELSE /\ reqs' = [reqs EXCEPT ![r].pc = "resolve", ![r].domain = validation.domain]
                  /\ act' = Act("verify", r, {"dns"})
        /\ UNCHANGED <<now, limiterVars, intelVars, verdictVars, weatherVars, checkVars, env>>

\* The intel result of request r once checkThreatIntel has returned.
NoteIntel(r) ==
    IF obs'.returned
    THEN [reqs EXCEPT ![r].pc = "battery", ![r].intelDone = TRUE, ![r].intel = obs'.data]
    ELSE [reqs EXCEPT ![r].pc = "battery"]

\* getPrimaryIp settles: the seven checks start.
PostResolve(r) ==
    /\ reqs[r].pc = "resolve"
    /\ \E primaryIp \in PrimaryIps : IntelStart(r, reqs[r].domain, primaryIp)
    /\ reqs' = NoteIntel(r)
    /\ act' = Act("resolve", r, {"dns", "crtsh"} \cup obs'.effects)
    /\ UNCHANGED <<now, limiterVars, verdictVars, weatherVars, checkVars, env>>

\* The Promise.all of checkThreatIntel of request r settles.
PostIntelJoin(r) ==
    /\ reqs[r].pc = "battery"
    /\ IntelJoin(r)
    /\ reqs' = NoteIntel(r)
    /\ act' = Act("join", r, obs'.effects)
    /\ UNCHANGED <<now, limiterVars, verdictVars, weatherVars, checkVars, env>>

\* The KEV fetch of request r settles.
PostIntelKev(r) ==
    /\ reqs[r].pc = "battery"
    /\ IntelKev(r)
    /\ reqs' = NoteIntel(r)
    /\ act' = Act("kev", r, obs'.effects)
    /\ UNCHANGED <<now, limiterVars, verdictVars, weatherVars, checkVars, env>>

\* domain.split(".") of the checks that build names from the labels
DomainLabels(domain) ==
    [d \in {BodyValidation[input].domain : input \in DOMAIN BodyValidation} |-> split(d, ".")][domain]

\* The Promise.all of the seven checks settles: the signals, the verdict, the report;
\* a rejection of one of the seven is caught by the handler and answered 500.
PostRespond(r) ==
    /\ reqs[r].pc = "battery" /\ reqs[r].intelDone
    /\ \E w \in { BatteryAnswers(DomainLabels(reqs[r].domain), mode) : mode \in BatteryModes } :
         IF BatteryRejects(w)
         THEN /\ Reply("respond", r, 500, "Internt serverfel")
              /\ UNCHANGED <<signals, overall>>
         ELSE \E allSignals \in
                  { BatterySignals(DomainLabels(reqs[r].domain), w)
                    \o <<mapLiveThreatSignal(reqs[r].intel),
                         mapExposedServicesSignal(reqs[r].intel),
                         mapExploitedRiskSignal(reqs[r].intel)>> } :
                /\ signals' = allSignals
                /\ overall' = overallFromSignals(allSignals)
                /\ act' = [Act("respond", r, {}) EXCEPT !.status = 200,
                                                        !.domain = reqs[r].domain]
                /\ reqs' = [reqs EXCEPT ![r] = IdleReq]
    /\ UNCHANGED <<now, limiterVars, intelVars, weatherVars, env, checkVars>>

PostIdle ==
    /\ env = [secret |-> "live", production |-> TRUE, siteKey |-> "live"]
    /\ reqs = [r \in Reqs |-> IdleReq]
    /\ act = NoAct

-----------------------------------------------------------------------------
(* Internet weather: the panel's WebSocket effect and the sitrep route *)

\* The two copies of the component: src/components/InternetWeatherPanel.tsx and
\* the one in part_002.
PanelSources == {"tsx", "part_002"}

MaxEvents == 3

\* useState("connecting"); let active = true; let ws = null; let reconnectTimer =
\* null.  closure is the value of connection seen by the handlers of the effect:
\* the effect has no dependencies and runs once, so it is the value of the first
\* render.  due: the call connect() at the end of the effect has not run yet.
\* opened: the current socket has reached OPEN.  timer: the timeout is pending.
PanelMounted(source) ==
    [source |-> source, active |-> TRUE, connection |-> "connecting",
     closure |-> "connecting", ws |-> "null", timer |-> FALSE, due |-> TRUE,
     opened |-> FALSE, events |-> 0, op |-> "mount"]

NoPanel == [PanelMounted("tsx") EXCEPT !.active = FALSE, !.due = FALSE, !.op = "none"]

\* connect(): at the end of the effect, or from the reconnect timeout.  new
\* WebSocket(url) may throw; the tsx copy catches and sets "error", the other copy
\* lets the exception leave connect after the state update.
PanelConnect ==
    /\ panel.due \/ panel.timer
    /\ \E throws \in BOOLEAN :
         LET previous == panel.connection
             updated  == IF previous = "connected" THEN "reconnecting" ELSE "connecting"
         IN  panel' = [panel EXCEPT
                 !.due = FALSE, !.timer = FALSE, !.op = "connect",
                 !.connection = IF throws /\ panel.source = "tsx" THEN "error" ELSE updated,
                 !.ws = IF throws THEN @ ELSE "CONNECTING",
                 !.opened = IF throws THEN @ ELSE FALSE]
    /\ UNCHANGED <<now, limiterVars, intelVars, verdictVars, postVars, checkVars, sitrepCache, gets>>

\* ws.onopen
WsOpen ==
    /\ panel.ws = "CONNECTING"
    /\ panel' = [panel EXCEPT !.ws = "OPEN", !.opened = TRUE, !.op = "open",
                              !.connection = IF panel.active THEN "connected" ELSE @]
    /\ UNCHANGED <<now, limiterVars, intelVars, verdictVars, postVars, checkVars, sitrepCache, gets>>

\* ws.onmessage: setLastEventAt and setBuckets when the envelope parses.
WsMessage ==
    /\ panel.ws = "OPEN"
    /\ panel.events < MaxEvents
    /\ \E parsed \in BOOLEAN :
         panel' = [panel EXCEPT !.op = "message",
                                !.events = IF panel.active /\ parsed THEN @ + 1 ELSE @]
    /\ UNCHANGED <<now, limiterVars, intelVars, verdictVars, postVars, checkVars, sitrepCache, gets>>

\* ws.onerror: the socket fails; its close event follows.
WsError ==
    /\ panel.ws \in {"CONNECTING", "OPEN"}
    /\ panel' = [panel EXCEPT !.ws = "CLOSING", !.op = "error",
                              !.connection = IF ~panel.active THEN @
                                             ELSE IF panel.source = "tsx" THEN "error"
                                             ELSE "reconnecting"]
    /\ UNCHANGED <<now, limiterVars, intelVars, verdictVars, postVars, checkVars, sitrepCache, gets>>

\* if (connection === "connected") in ws.onclose of the tsx copy; the other copy
\* has no condition.
WasConnected(p) == IF p.source = "tsx" THEN p.closure = "connected" ELSE TRUE

\* ws.onclose: the server closes an open socket, or the close event of a failed or
\* locally closed socket arrives.
WsClose ==
    /\ panel.ws \in {"OPEN", "CLOSING"}
    /\ panel' = IF panel.active /\ WasConnected(panel)
                THEN [panel EXCEPT !.ws = "CLOSED", !.op = "close",
                                   !.connection = "reconnecting", !.timer = TRUE]
                ELSE [panel EXCEPT !.ws = "CLOSED", !.op = "close"]
    /\ UNCHANGED <<now, limiterVars, intelVars, verdictVars, postVars, checkVars, sitrepCache, gets>>

\* The cleanup of the effect.
PanelUnmount ==
    /\ panel.active /\ ~panel.due
    /\ panel' = [panel EXCEPT !.active = FALSE, !.timer = FALSE, !.op = "unmount",
                              !.ws = IF @ = "OPEN" THEN "CLOSING" ELSE @]
    /\ UNCHANGED <<now, limiterVars, intelVars, verdictVars, postVars, checkVars, sitrepCache, gets>>

\* The sitrep route.
SITREP_RATE_LIMIT_WINDOW_MS == 60 * 1000
SITREP_RATE_LIMIT_MAX_REQUESTS == 30
CACHE_TTL_MS == 10 * 60 * 1000
MAX_ALERTS == 5

\* checkRateLimit of the route: the same body with 30 requests a minute (its
\* eviction starts above 500 entries; the stores followed here hold one).
sitrepCheckRateLimit(store, ip, t) ==
    checkRateLimitWith(store, ip, t, SITREP_RATE_LIMIT_WINDOW_MS,
                       SITREP_RATE_LIMIT_MAX_REQUESTS)

\* How the fetch of the CERT-SE feed ends: a 2xx answer with a number of items, an
\* answer that is not 2xx (an error page without items), or an abort after 5 s or
\* a network error.
FeedAnswers ==
    { [state |-> "ok", items |-> n] : n \in {0, 3, 7} }
    \cup { [state |-> "status", items |-> 0], [state |-> "timeout", items |-> 0] }

\* fetchCertSeAlerts(): the number of alerts returned.  response.ok is not looked
\* at, and the catch returns [].
fetchCertSeAlerts(answer) ==
    IF answer.state = "timeout" THEN 0
    ELSE IF answer.items < MAX_ALERTS THEN answer.items ELSE MAX_ALERTS

Gets == {1, 2}

NoCache == [valid |-> FALSE, expiresAt |-> 0, data |-> [alerts |-> 0, timestamp |-> 0]]
NoResponse ==
    [op |-> "none", get |-> 0, status |-> 0, xcache |-> "none", feed |-> "none",
     data |-> NoCache.data, remaining |-> 0]
NoGets == [pc |-> [g \in Gets |-> "idle"], res |-> NoResponse]

\* cache && cache.expiresAt > Date.now()
SitrepCacheFresh(c, t) == c.valid /\ c.expiresAt > t

\* GET up to its first await: the limiter, the cached response, or the fetch.
SitrepGet(g, ip) ==
    LET rl == sitrepCheckRateLimit(rateLimitStore, ip, now)
    IN  /\ gets.pc[g] = "idle"
        /\ rateLimitStore' = rl.store
        /\ IF ~rl.allowed
           THEN gets' = [gets EXCEPT !.res = [NoResponse EXCEPT !.op = "GET", !.get = g,
                                                                 !.status = 429]]
           ELSE IF SitrepCacheFresh(sitrepCache, now)
           THEN gets' = [gets EXCEPT !.res = [NoResponse EXCEPT
                              !.op = "GET", !.get = g, !.status = 200, !.xcache = "HIT",
                              !.data = sitrepCache.data, !.remaining = rl.remaining]]
           ELSE gets' = [pc  |-> [gets.pc EXCEPT ![g] = "fetching"],
                         res |-> [NoResponse EXCEPT !.op = "GET", !.get = g,
                                                    !.feed = "asked",
                                                    !.remaining = rl.remaining]]
        /\ UNCHANGED <<now, rlLast, admitTimes, histWin, intelVars, verdictVars, postVars,
                       checkVars, panel, sitrepCache>>

\* Promise.all settles: the response is built, stored in cache and returned.
SitrepSettle(g) ==
    /\ gets.pc[g] = "fetching"
    /\ \E answer \in FeedAnswers :
         LET responseData == [alerts |-> fetchCertSeAlerts(answer), timestamp |-> now]
         IN  /\ sitrepCache' = [valid |-> TRUE, expiresAt |-> now + CACHE_TTL_MS,
                          data |-> responseData]
             /\ gets' = [pc  |-> [gets.pc EXCEPT ![g] = "idle"],
                         res |-> [NoResponse EXCEPT
                                     !.op = "settle", !.get = g, !.status = 200,
                                     !.xcache = "MISS", !.feed = answer.state,
                                     !.data = responseData]]
    /\ UNCHANGED <<now, limiterVars, intelVars, verdictVars, postVars, checkVars, panel>>

WeatherIdle ==
    /\ panel = NoPanel
    /\ sitrepCache = NoCache
    /\ gets = NoGets

-----------------------------------------------------------------------------
(* Base checks: the runs followed on their own *)

\* No check followed.
NoProbe == [check |-> "none"]
NoOutcome == [done |-> FALSE]

Ran(raw, lookups, signal) ==
    [done |-> TRUE, raw |-> raw, lookups |-> lookups, signal |-> signal]

ChecksIdle ==
    /\ probe = NoProbe
    /\ outcome = NoOutcome

-----------------------------------------------------------------------------
(* Specification of the limiter alone: checkRateLimit called at arbitrary times *)

LimiterInit ==
    /\ now = 0
    /\ rateLimitStore = EmptyMap
    /\ rlLast = NoCall
    /\ admitTimes = [c \in Callers |-> <<>>]
    /\ histWin = [c \in Callers |-> [start |-> 0, calls |-> 0, admits |-> 0]]

IntelIdle ==
    /\ upstreamRateStore = EmptyMap
    /\ threatIntelCache = EmptyMap
    /\ kevCache = NoKevCache
    /\ world = [urlhausHits |-> 0, threatfoxHits |-> 0, abuseScore |-> 0,
                ports |-> 0, vulns |-> {}, kev |-> {}]
    /\ tasks = [k \in Tasks |-> IdleTask]
    /\ issued = [s \in Sources |-> [start |-> 0, calls |-> 0]]
    /\ obs = NoObs
    /\ run = [calls |-> 0, bursts |-> 0]

VerdictIdle ==
    /\ signals = <<>>
    /\ overall = [overallVerdict |-> "none", pressureBand |-> "none"]

LimiterCall ==
    /\ \E ip \in Callers : GateCall(ip)
    /\ UNCHANGED <<now, intelVars, verdictVars, weatherVars, checkVars, postVars>>

LimiterTick ==
    /\ \E t \in LimiterInstants : ClockTo(t)
    /\ UNCHANGED <<rateLimitStore, rlLast, histWin, intelVars, verdictVars, weatherVars, checkVars, postVars>>

LimiterNext == LimiterCall \/ LimiterTick

LimiterSpecInit == LimiterInit /\ IntelIdle /\ VerdictIdle /\ WeatherIdle /\ PostIdle /\ ChecksIdle

SpecLimiter == LimiterSpecInit /\ [][LimiterNext]_vars

-----------------------------------------------------------------------------
(* Specification of the threat-intel leg: checkThreatIntel called by admitted *)
(* requests that overlap in time                                             *)

IntelInit ==
    /\ upstreamRateStore = EmptyMap
    /\ threatIntelCache = EmptyMap
    /\ kevCache = NoKevCache
    /\ world \in Worlds
    /\ tasks = [k \in Tasks |-> IdleTask]
    /\ issued = [s \in Sources |-> [start |-> 0, calls |-> 0]]
    /\ obs = NoObs
    /\ run = [calls |-> 0, bursts |-> 0]

IntelCall ==
    /\ \E k \in Tasks, d \in Domains, ip \in PrimaryIps :
         /\ \A j \in Tasks : j < k => tasks[j].pc # "idle"
         /\ IntelStart(k, d, ip)
    /\ UNCHANGED <<now, limiterVars, verdictVars, weatherVars, checkVars, postVars>>

IntelSettle ==
    /\ \E k \in Tasks : IntelJoin(k)
    /\ UNCHANGED <<now, limiterVars, verdictVars, weatherVars, checkVars, postVars>>

IntelKevSettle ==
    /\ \E k \in Tasks : IntelKev(k)
    /\ UNCHANGED <<now, limiterVars, verdictVars, weatherVars, checkVars, postVars>>

IntelOther ==
    /\ \E ip \in PrimaryIps : OtherBurst(ip)
    /\ UNCHANGED <<now, limiterVars, verdictVars, weatherVars, checkVars, postVars>>

IntelOtherKev ==
    /\ OtherKev
    /\ UNCHANGED <<now, limiterVars, verdictVars, weatherVars, checkVars, postVars>>

IntelTick ==
    /\ \E t \in IntelInstants : t > now /\ now' = t
    /\ obs' = Step("tick", 0, <<"", "">>, {}, {})
    /\ UNCHANGED <<limiterVars, upstreamRateStore, threatIntelCache, kevCache, world,
                   tasks, issued, run, verdictVars, weatherVars, checkVars, postVars>>

IntelNext ==
    IntelCall \/ IntelSettle \/ IntelKevSettle \/ IntelOther \/ IntelOtherKev \/ IntelTick

IntelSpecInit == LimiterInit /\ IntelInit /\ VerdictIdle /\ WeatherIdle /\ PostIdle /\ ChecksIdle

SpecIntel == IntelSpecInit /\ [][IntelNext]_vars

\* The same requests in a process that fetched the catalog KEV_CACHE_TTL_MS ago,
\* so that kevCache is set and kevCache.expiresAt > Date.now() is false.
ExpiredKevCache == [valid |-> TRUE, expiresAt |-> 0, cves |-> {"CVE-1"}]

KevInit ==
    /\ LimiterInit /\ VerdictIdle /\ WeatherIdle /\ PostIdle /\ ChecksIdle
    /\ upstreamRateStore = EmptyMap
    /\ threatIntelCache = EmptyMap
    /\ kevCache = ExpiredKevCache
    /\ world \in Worlds
    /\ tasks = [k \in Tasks |-> IdleTask]
    /\ issued = [s \in Sources |-> [start |-> 0, calls |-> 0]]
    /\ obs = NoObs
    /\ run = [calls |-> 0, bursts |-> 0]

SpecKev == KevInit /\ [][IntelNext]_vars

-----------------------------------------------------------------------------
(* Specification of the verdict aggregator alone: overallFromSignals applied *)
(* to every combination of bands of the nine signals of a report            *)

Bands == {"green", "amber", "red", "gray"}
NumSignals == 9

VerdictInit ==
    /\ signals \in [1..NumSignals ->
                      {makeSignal(b, "t", IF b = "gray" THEN "low" ELSE "medium") : b \in Bands}]
    /\ overall = [overallVerdict |-> "none", pressureBand |-> "none"]

VerdictCompute ==
    /\ overall.overallVerdict = "none"
    /\ overall' = overallFromSignals(signals)
    /\ UNCHANGED <<now, limiterVars, intelVars, signals, weatherVars, postVars, checkVars>>

VerdictNext == VerdictCompute

VerdictSpecInit == LimiterInit /\ IntelIdle /\ VerdictInit /\ WeatherIdle /\ PostIdle /\ ChecksIdle

SpecVerdict == VerdictSpecInit /\ [][VerdictNext]_vars

-----------------------------------------------------------------------------
(* Specification of the handler: POST requests that overlap in time *)

PostCallers == {"ip1"}
PostInstants == {0, RATE_LIMIT_WINDOW_MS}

PostInit ==
    /\ env \in Envs
    /\ reqs = [r \in Reqs |-> IdleReq]
    /\ act = NoAct

PostReceive ==
    \E ip \in PostCallers, body \in Bodies : PostArrive(ip, body)

PostParsed == \E r \in Reqs : PostBody(r)

PostVerified == \E r \in Reqs : PostVerify(r)

PostResolved == \E r \in Reqs : PostResolve(r)

PostJoined == \E r \in Reqs : PostIntelJoin(r)

PostKevSettled == \E r \in Reqs : PostIntelKev(r)

PostResponded == \E r \in Reqs : PostRespond(r)

PostTick ==
    /\ \E t \in PostInstants : ClockTo(t)
    /\ act' = [NoAct EXCEPT !.op = "tick"]
    /\ UNCHANGED <<rateLimitStore, rlLast, histWin, intelVars, verdictVars, weatherVars, checkVars, env, reqs>>

Next ==
    \/ PostReceive \/ PostParsed \/ PostVerified \/ PostResolved
    \/ PostJoined \/ PostKevSettled \/ PostResponded \/ PostTick

Init == LimiterInit /\ IntelInit /\ VerdictIdle /\ WeatherIdle /\ PostInit /\ ChecksIdle

Spec == Init /\ [][Next]_vars

\* The Promise.all of request r settles: the step that ends the battery stage.
BatterySettles(r) ==
    /\ reqs[r].pc = "battery" /\ reqs[r].intelDone
    /\ reqs' = [reqs EXCEPT ![r] = IdleReq]

\* The handler under the timers of the code: the request body arrives; the lookup
\* of getPrimaryIp settles within DNS_TIMEOUT_MS (withTimeout); the four client
\* fetches and the KEV fetch settle within FETCH_TIMEOUT_MS (AbortSignal.timeout);
\* the base checks settle, each of their lookups being under one of the two timers.
\* The Turnstile fetch carries no timer: nothing makes it settle.
TimersFire ==
    \A r \in Reqs :
        /\ WF_vars(PostBody(r))
        /\ WF_vars(PostResolve(r))
        /\ WF_vars(PostIntelJoin(r))
        /\ WF_vars(PostIntelKev(r))
        /\ WF_reqs(BatterySettles(r))

\* The handler within one rate-limit window.
LiveNext ==
    \/ PostReceive \/ PostParsed \/ PostVerified \/ PostResolved
    \/ PostJoined \/ PostKevSettled \/ PostResponded

SpecLive == Init /\ [][LiveNext]_vars /\ TimersFire

\* The handler under each deployment of ConfigEnvs.
ConfigInit ==
    /\ LimiterInit /\ IntelInit /\ VerdictIdle /\ WeatherIdle /\ ChecksIdle
    /\ env \in ConfigEnvs
    /\ reqs = [r \in Reqs |-> IdleReq]
    /\ act = NoAct

SpecConfig == ConfigInit /\ [][LiveNext]_vars

-----------------------------------------------------------------------------
(* Claims *)

\* C1 (as stated): in every rolling interval of RATE_LIMIT_WINDOW_MS, at most
\* RATE_LIMIT_MAX_REQUESTS calls of a caller return allowed=true.
C1_RollingWindowBound ==
    \A c \in Callers : Len(admitTimes[c]) <= RATE_LIMIT_MAX_REQUESTS

\* C1 (amended): within each fixed window, which runs from the first allowed call
\* of a caller to RATE_LIMIT_WINDOW_MS later, at most RATE_LIMIT_MAX_REQUESTS calls
\* of that caller return allowed=true; a rolling interval of the same length
\* overlaps at most two windows and holds at most twice as many.
C1_FixedWindowBound ==
    \A c \in Callers :
        /\ histWin[c].admits <= RATE_LIMIT_MAX_REQUESTS
        /\ Len(admitTimes[c]) <= 2 * RATE_LIMIT_MAX_REQUESTS

\* The 11th call of a window is refused while the rolling interval already holds
\* more than RATE_LIMIT_MAX_REQUESTS allowed calls.
C1_Witness ==
    \E c \in Callers :
        /\ rlLast.ip = c /\ ~rlLast.allowed
        /\ histWin[c].admits = RATE_LIMIT_MAX_REQUESTS
        /\ Len(admitTimes[c]) > RATE_LIMIT_MAX_REQUESTS

\* C2: every checkRateLimit call that returns allowed=false returns remaining = 0
\* and 0 < resetIn <= window, so that Retry-After = ceil(resetIn / 1000) >= 1.
C2_RefusalPositiveReset ==
    (rlLast.ip # "none" /\ ~rlLast.allowed) =>
        /\ rlLast.remaining = 0
        /\ 0 < rlLast.resetIn /\ rlLast.resetIn <= RATE_LIMIT_WINDOW_MS
        /\ CeilDiv(rlLast.resetIn, 1000) >= 1

\* C3: the n-th POST of a caller inside the window opened by its first one passes
\* the rate-limit gate when n <= RATE_LIMIT_MAX_REQUESTS and is answered with status
\* 429 and a Retry-After header when n > RATE_LIMIT_MAX_REQUESTS (the 11th is); the
\* number admitted is min(n, max) and the stored count never exceeds max.
C3_GateAdmitsFirstMax ==
    [][ act'.op = "POST" =>
          LET c == act'.ip
              n == histWin'[c].calls
          IN  /\ n <= RATE_LIMIT_MAX_REQUESTS =>
                    /\ act'.allowed /\ act'.status = 0
                    /\ act'.req \in Reqs /\ reqs'[act'.req].pc = "json"
              /\ n > RATE_LIMIT_MAX_REQUESTS =>
                    /\ ~act'.allowed /\ act'.status = 429
                    /\ act'.retryAfter # NULL_NUM
                    /\ reqs' = reqs
              /\ histWin'[c].admits = IF n <= RATE_LIMIT_MAX_REQUESTS THEN n
                                      ELSE RATE_LIMIT_MAX_REQUESTS
              /\ rateLimitStore'[c].count <= RATE_LIMIT_MAX_REQUESTS
      ]_vars

\* The 11th request of a caller in one window has been answered with 429.
C3_Witness ==
    /\ act.op = "POST" /\ act.status = 429 /\ act.retryAfter # NULL_NUM
    /\ histWin[act.ip].calls = RATE_LIMIT_MAX_REQUESTS + 1
    /\ histWin[act.ip].admits = RATE_LIMIT_MAX_REQUESTS

\* C4: a step of a request that checkRateLimit refused makes no external call (DNS,
\* Turnstile, upstream feed), consumes no upstream budget, changes neither
\* threatIntelCache nor kevCache, and the request goes no further than its 429.
C4_RefusedRequestTouchesNothing ==
    [][ (act'.op # "tick" /\ ~act'.allowed) =>
          /\ act'.effects = {}
          /\ act'.status = 429
          /\ UNCHANGED <<upstreamRateStore, threatIntelCache, kevCache, issued, tasks, reqs>>
      ]_vars

\* A request is refused while an admitted one is in its check battery and the
\* stores are populated.
C4_Witness ==
    /\ act.op = "POST" /\ act.status = 429 /\ ~act.allowed
    /\ \E r \in Reqs : reqs[r].pc = "battery"
    /\ upstreamRateStore # EmptyMap

Gray(sig) == sig.verdict = "gray" /\ sig.confidence = "low"

LiveSources == {"urlhaus", "threatfox", "abuseipdb"}

C6_BudgetNeverExceeded ==
    /\ \A s \in Sources :
         /\ issued[s].calls <= UPSTREAM_RATE_MAX_REQUESTS[s]
         /\ s \in DOMAIN upstreamRateStore =>
               upstreamRateStore[s].count <= UPSTREAM_RATE_MAX_REQUESTS[s]
    /\ obs.effects \cap obs.refused = {}
    /\ \A k \in Tasks : tasks[k].inflight \cap tasks[k].refused = {}

\* Two calls overlap while shodan is at its limit: both were refused shodan.
C6_Witness ==
    /\ \A k \in Tasks : tasks[k].pc = "fetching" /\ "shodan" \in tasks[k].refused
    /\ issued["shodan"].calls = UPSTREAM_RATE_MAX_REQUESTS["shodan"]

\* The step is a call of checkThreatIntel.
IsIntelCall == run'.calls = run.calls + 1

\* The step is the join of task k and reaches getKevCves.
JoinCallsKev(k) ==
    /\ tasks[k].pc = "fetching"
    /\ \/ tasks'[k].pc = "kev"
       \/ tasks'[k].pc = "idle" /\ obs'.task = k /\ obs'.data.shodan.vulnCount > 0

\* C7: a call of checkThreatIntel that finds an unexpired entry returns the stored
\* data, invokes no upstream client and leaves upstreamRateStore and
\* threatIntelCache unchanged; getKevCves with an unexpired kevCache returns the
\* cached set without consuming kev budget or fetching.
C7_CacheHitBypass ==
    [][ /\ (IsIntelCall /\ obs'.key \in DOMAIN threatIntelCache
              /\ threatIntelCache[obs'.key].expiresAt > now) =>
             /\ obs'.returned /\ obs'.hit
             /\ obs'.data = threatIntelCache[obs'.key].data
             /\ obs'.effects = {}
             /\ UNCHANGED <<upstreamRateStore, threatIntelCache, kevCache, issued, tasks>>
        /\ \A k \in Tasks :
             (JoinCallsKev(k) /\ kevCache.valid /\ kevCache.expiresAt > now) =>
               /\ tasks'[k].pc = "idle" /\ obs'.kev = "hit"
               /\ obs'.data.kevHits = Cardinality(obs'.data.shodan.vulns \cap kevCache.cves)
               /\ UNCHANGED <<upstreamRateStore, kevCache, issued>>
      ]_vars

\* A call was answered from the cache while the KEV catalog is cached too.
C7_Witness == obs.returned /\ obs.hit /\ kevCache.valid

\* C8: threatIntelCache never holds the result of a round in which every source
\* was unavailable.
C8_FailedRoundNotCached ==
    \A key \in DOMAIN threatIntelCache : ~RoundFailed(threatIntelCache[key].data)

\* What a round for the key returns when every client that runs gets its answer.
FreshData(key) ==
    LET ip     == IF key[2] = "no-ip" THEN NULL_IP ELSE key[2]
        ran    == {RoundSources(ip)[i] : i \in 1..Len(RoundSources(ip))}
        shodan == ShodanResult(world, "shodan" \in ran)
    IN  [urlhaus   |-> UrlhausResult(world, "urlhaus" \in ran),
         threatfox |-> ThreatFoxResult(world, "threatfox" \in ran),
         shodan    |-> shodan,
         abuseipdb |-> AbuseIpdbResult(world, "abuseipdb" \in ran),
         kevHits   |-> KevHits(shodan, [some |-> TRUE, cves |-> world.kev])]

\* C9: the three signals of a request served from the cache equal those of a fresh
\* fetch with the upstream answers unchanged.
C9_CacheHitEqualsFresh ==
    (obs.returned /\ obs.hit) =>
        /\ obs.liveThreat = mapLiveThreatSignal(FreshData(obs.key))
        /\ obs.exposedServices = mapExposedServicesSignal(FreshData(obs.key))
        /\ obs.exploitedRisk = mapExploitedRiskSignal(FreshData(obs.key))

CountBand(s, b) == Cardinality({i \in 1..Len(s) : s[i].verdict = b})

\* C10: total = 2 * (number of red) + (number of amber); risk/high iff total >= 7,
\* attention/medium iff 3 <= total < 7, secure/low iff total < 3.
C10_OverallFromWeights ==
    LET total == 2 * CountBand(signals, "red") + CountBand(signals, "amber")
    IN  overall.overallVerdict # "none" =>
          /\ (overall = [overallVerdict |-> "risk", pressureBand |-> "high"]) <=> (total >= 7)
          /\ (overall = [overallVerdict |-> "attention", pressureBand |-> "medium"])
                <=> (total >= 3 /\ total < 7)
          /\ (overall = [overallVerdict |-> "secure", pressureBand |-> "low"]) <=> (total < 3)

\* One red and three ambers among nine signals give attention/medium.
C10_Witness ==
    /\ CountBand(signals, "red") = 1 /\ CountBand(signals, "amber") = 3
    /\ overall = [overallVerdict |-> "attention", pressureBand |-> "medium"]

-----------------------------------------------------------------------------
(* Specification of the base checks, each run on its own *)

\* SPF records published for the domain, as their terms.
SpfTerms ==
    { <<"v=spf1", "include:_spf.example.net", "-all">>,
      <<"V=SPF1", "MX", "-ALL">>,
      <<"v=spf1", "mx", "~all">>,
      <<"v=spf1", "a", "?all">>,
      <<"v=spf1", "include:strict-all.example.net", "~all">>,
      <<"v=spf1", "mx">> }

\* The qualifier of the "all" mechanism of an SPF record.
SpfAll(terms) ==
    IF \E i \in 1..Len(terms) : toLowerCase(terms[i]) = "-all" THEN "strict"
    ELSE IF \E i \in 1..Len(terms) : toLowerCase(terms[i]) = "~all" THEN "soft"
    ELSE IF \E i \in 1..Len(terms) : toLowerCase(terms[i]) = "?all" THEN "neutral"
    ELSE "none"

\* What the TXT lookup of the domain is asked to return: nothing in time, no TXT
\* record, a TXT record that is not SPF, or an SPF record, alone, after another TXT
\* record, or split in two character-strings before its last term.
SpfProbes ==
    { [state |-> st, layout |-> "none", terms |-> <<>>] : st \in {"timeout", "nodata"} }
    \cup { [state |-> "records", layout |-> "other", terms |-> <<>>] }
    \cup { [state |-> "records", layout |-> l, terms |-> t] :
             l \in {"single", "second"}, t \in SpfTerms }
    \cup { [state |-> "records", layout |-> "chunked",
            terms |-> <<"v=spf1", "include:_spf.example.net", "-all">>] }

TxtAnswer(spf) ==
    LET text == Join(spf.terms, " ")
        n    == Len(spf.terms)
    IN  CASE spf.state # "records"  -> Answer(spf.state, <<>>)
          [] spf.layout = "other"   -> Answer("records", << <<"site-verification=4f1c">> >>)
          [] spf.layout = "single"  -> Answer("records", << <<text>> >>)
          [] spf.layout = "second"  ->
                Answer("records", << <<"site-verification=4f1c">>, <<text>> >>)
          [] OTHER ->
                Answer("records",
                       << <<Join(SubSeq(spf.terms, 1, n - 1), " ") \o " ", spf.terms[n]>> >>)

\* DMARC records published at _dmarc.domain, as their tags.
DmarcTags ==
    { << <<"v", "DMARC1">>, <<"p", "reject">>, <<"rua", "mailto:d@example.net">> >>,
      << <<"v", "DMARC1">>, <<"p", "quarantine">> >>,
      << <<"v", "DMARC1">>, <<"p", "none">> >>,
      << <<"v", "DMARC1">>, <<"p", "none">>, <<"sp", "reject">> >>,
      << <<"v", "DMARC1">>, <<"p", "none">>, <<"sp", "quarantine">> >>,
      << <<"v", "DMARC1">>, <<"rua", "mailto:d@example.net">> >> }

\* The policy of a DMARC record: the value of its tag p.
DmarcPolicyOf(tags) ==
    IF \E i \in 1..Len(tags) : tags[i][1] = "p"
    THEN tags[CHOOSE i \in 1..Len(tags) : tags[i][1] = "p"][2]
    ELSE "missing"

DmarcProbes ==
    { [state |-> st, tags |-> <<>>] : st \in {"timeout", "nodata"} }
    \cup { [state |-> "records", tags |-> t] : t \in DmarcTags }

DmarcAnswer(d) ==
    IF d.state # "records" THEN Answer(d.state, <<>>)
    ELSE Answer("records",
                << <<Join([i \in 1..Len(d.tags) |-> d.tags[i][1] \o "=" \o d.tags[i][2]],
                          "; ")>> >>)

MxAnswers ==
    { Answer("records", <<"mx1.example.net">>), Answer("empty", <<>>),
      Answer("nodata", <<>>), Answer("timeout", <<>>) }

EmailProbes ==
    { [check |-> "email", mx |-> m, spf |-> sp, dmarc |-> d] :
        m \in MxAnswers, sp \in SpfProbes, d \in DmarcProbes }

AllBlacklists == Range(IP_BLACKLISTS) \cup Range(DOMAIN_BLACKLISTS)

\* Addresses the domain resolves to: three inside a Cloudflare range, one just
\* above the range 104.24.0.0/14, one elsewhere.
ProbeIps ==
    { <<104, 16, 1, 1>>, <<172, 67, 1, 1>>, <<198, 41, 200, 5>>,
      <<104, 28, 0, 1>>, <<93, 184, 216, 34>> }

AAnswers ==
    { Answer("records", <<ip>>) : ip \in ProbeIps }
    \cup { Answer(st, <<>>) : st \in {"nodata", "fail", "timeout"} }

\* The zones that list the address or the domain (at most MaxListed of them), and
\* the zones whose lookup does not answer in time (none, or all of them).
BlacklistProbes ==
    { [check |-> c, a |-> a, listed |-> l, timedOut |-> t] :
        c \in {"blacklist", "blacklistQuick"},
        a \in AAnswers,
        l \in {x \in SUBSET AllBlacklists : Cardinality(x) <= MaxListed},
        t \in {{}, AllBlacklists} }

BlacklistAnswers(p) ==
    [bl \in AllBlacklists |->
        IF bl \in p.timedOut THEN Answer("timeout", <<>>)
        ELSE IF bl \in p.listed THEN Answer("records", <<"127.0.0.2">>)
        ELSE Answer("nodata", <<>>)]

RunBlacklists ==
    /\ probe.check \in {"blacklist", "blacklistQuick"}
    /\ ~outcome.done
    /\ LET r == IF probe.check = "blacklist"
                THEN checkBlacklists(probe.a, BlacklistAnswers(probe))
                ELSE checkBlacklistsQuick(probe.a, BlacklistAnswers(probe))
       IN  outcome' = Ran(r.raw, r.lookups, mapBlacklistSignal(r.raw))
    /\ UNCHANGED <<now, limiterVars, intelVars, verdictVars, weatherVars, postVars, probe>>

CaaAnswers ==
    { Answer("records", <<"0 issue letsencrypt.org">>),
      Answer("records", <<"0 issue letsencrypt.org", "0 iodef mailto:s@example.net">>) }
    \cup { Answer(st, <<>>) : st \in {"empty", "nodata", "fail", "timeout"} }

DnsArmorProbes == { [check |-> "dnsArmor", caa |-> a] : a \in CaaAnswers }

RunDnsArmor ==
    /\ probe.check = "dnsArmor"
    /\ ~outcome.done
    /\ LET r == checkDNSArmor(probe.caa)
       IN  outcome' = Ran(r.raw, r.lookups, mapDnsArmorSignal(r.raw))
    /\ UNCHANGED <<now, limiterVars, intelVars, verdictVars, weatherVars, postVars, probe>>

\* Domains checked, as labels: one whose six candidates differ, one without the
\* letters a, o and i.
TypoDomains == { <<"nordia", "se">>, <<"key", "net">> }

\* Each candidate name resolves, has no address, or does not answer in time.
TyposquatProbes ==
    UNION { { [check |-> "typosquat", domain |-> d, answers |-> f] :
                f \in [Range(typos(d)) -> {"records", "nodata", "timeout"}] } :
            d \in TypoDomains }

TypoAnswers(p) ==
    [c \in DOMAIN p.answers |->
        IF p.answers[c] = "records" THEN Answer("records", <<"203.0.113.7">>)
        ELSE Answer(p.answers[c], <<>>)]

RunTyposquats ==
    /\ probe.check = "typosquat"
    /\ ~outcome.done
    /\ LET r == checkTyposquats(probe.domain, TypoAnswers(probe))
       IN  outcome' = Ran(r.raw, r.lookups, mapTyposquatSignal(r.raw))
    /\ UNCHANGED <<now, limiterVars, intelVars, verdictVars, weatherVars, postVars, probe>>

HttpResponses(sizes) ==
    { [state |-> "ok", size |-> n] : n \in sizes }
    \cup { [state |-> st, size |-> 0] : st \in HttpStates \ {"ok"} }

ShadowProbes ==
    { [check |-> "shadow", res |-> r] : r \in HttpResponses({0, 5, 6, 15, 16}) }

HistoryProbes ==
    { [check |-> "history", res |-> r] : r \in HttpResponses({0, 1, 21, 22, 51, 52}) }

RunShadow ==
    /\ probe.check = "shadow"
    /\ ~outcome.done
    /\ LET r == checkShadowInfrastructure(probe.res)
       IN  outcome' = Ran(r.raw, r.lookups, mapShadowInfraSignal(r.raw))
    /\ UNCHANGED <<now, limiterVars, intelVars, verdictVars, weatherVars, postVars, probe>>

RunHistory ==
    /\ probe.check = "history"
    /\ ~outcome.done
    /\ LET r == checkHistoricalFootprint(probe.res)
       IN  outcome' = Ran(r.raw, r.lookups, mapHistorySignal(r.raw))
    /\ UNCHANGED <<now, limiterVars, intelVars, verdictVars, weatherVars, postVars, probe>>

ChecksProbes == EmailProbes \cup BlacklistProbes \cup DnsArmorProbes
                \cup TyposquatProbes \cup ShadowProbes \cup HistoryProbes

ChecksInit ==
    /\ probe \in ChecksProbes
    /\ outcome = NoOutcome

RunEmail ==
    /\ probe.check = "email"
    /\ ~outcome.done
    /\ LET r == checkEmailSecurity(probe.mx, TxtAnswer(probe.spf), DmarcAnswer(probe.dmarc))
       IN  outcome' = Ran(r.raw, r.lookups, mapEmailSignal(r.raw))
    /\ UNCHANGED <<now, limiterVars, intelVars, verdictVars, weatherVars, postVars, probe>>

ChecksNext == RunEmail \/ RunBlacklists \/ RunDnsArmor \/ RunTyposquats
    \/ RunShadow \/ RunHistory

ChecksSpecInit == LimiterInit /\ IntelIdle /\ VerdictIdle /\ WeatherIdle /\ PostIdle /\ ChecksInit

SpecChecks == ChecksSpecInit /\ [][ChecksNext]_vars

\* C11 (as stated): whenever the DMARC record of the domain has policy p=none, the
\* email signal is red, whatever the MX answer, the SPF state and the other tags
\* of the DMARC record are.
C11_DmarcNoneIsRed ==
    (/\ outcome.done
     /\ probe.check = "email"
     /\ probe.dmarc.state = "records"
     /\ DmarcPolicyOf(probe.dmarc.tags) = "none")
    => outcome.signal.verdict = "red"

\* The decision table of the email check on the records published for the domain.
EmailTable(p) ==
    LET policy == IF p.dmarc.state = "records" THEN DmarcPolicyOf(p.dmarc.tags) ELSE "missing"
        spfAll == IF p.spf.state = "records" THEN SpfAll(p.spf.terms) ELSE "none"
    IN  IF p.mx.state # "records" THEN <<"not_applicable", "gray", 0>>
        ELSE IF policy \in {"reject", "quarantine"} THEN <<"protected", "green", 0>>
        ELSE IF policy = "none" THEN <<"not_protected", "red", 3>>
        ELSE IF spfAll = "strict" THEN <<"partial", "amber", 1>>
        ELSE IF spfAll \in {"soft", "neutral"} THEN <<"partial", "amber", 2>>
        ELSE <<"not_protected", "red", 3>>

\* C12 (as stated): for every combination of MX, SPF and DMARC answers the email
\* check and its mapper follow the table: no MX gives not_applicable; DMARC reject
\* or quarantine gives protected/green with risk level 0; DMARC none gives
\* not_protected/red; no DMARC policy with SPF -all gives partial/amber with risk
\* level 1, with SPF ~all or ?all partial/amber with risk level 2; anything else
\* gives not_protected/red.
C12_EmailDecisionTable ==
    (outcome.done /\ probe.check = "email")
    => <<outcome.raw.verdict, outcome.signal.verdict, outcome.raw.riskLevel>>
         = EmailTable(probe)

\* C13 (as stated): when the address of the domain lies in a Cloudflare range,
\* checkBlacklists issues no lookup against a blacklist of the CDN-sensitive list,
\* and a hit on any other blacklist, IP or domain, gives listed and red.
C13_CdnSkipsSensitiveLists ==
    (/\ outcome.done
     /\ probe.check \in {"blacklist", "blacklistQuick"}
     /\ probe.a.state = "records"
     /\ isCloudflareIP(probe.a.records[1]))
    => /\ Range(outcome.lookups) \cap CDN_AGGRESSIVE_LISTS = {}
       /\ (probe.listed \ (probe.timedOut \cup CDN_AGGRESSIVE_LISTS) # {}
             => outcome.raw.verdict = "listed" /\ outcome.signal.verdict = "red")

\* C14 (as stated): the DNS-hardening check tells three outcomes of the CAA lookup
\* apart: at least one record gives hardened/green; a completed lookup with zero
\* records gives missing/amber; a lookup that failed or timed out gives
\* unknown/gray with confidence low, never missing.
C14_CaaThreeOutcomes ==
    (outcome.done /\ probe.check = "dnsArmor")
    => <<outcome.raw.verdict, outcome.signal.verdict, outcome.signal.confidence>> =
         CASE probe.caa.state = "records" -> <<"hardened", "green", "high">>
           [] probe.caa.state = "empty"   -> <<"missing", "amber", "high">>
           [] OTHER                       -> <<"unknown", "gray", "low">>

\* C15 (as stated): a check none of whose lookups completed reports gray, not a
\* negative finding: the blacklist signal is gray when the A lookup of the domain
\* fails or times out or when every blacklist lookup times out, and the typosquat
\* signal is gray when every lookalike lookup times out.
C15_NoLookupCompletedIsGray ==
    /\ (/\ outcome.done
        /\ probe.check \in {"blacklist", "blacklistQuick"}
        /\ \/ probe.a.state \in {"fail", "timeout"}
           \/ probe.a.state = "records" /\ probe.timedOut = AllBlacklists)
       => outcome.signal.verdict = "gray"
    /\ (/\ outcome.done
        /\ probe.check = "typosquat"
        /\ \A c \in DOMAIN probe.answers : probe.answers[c] = "timeout")
       => outcome.signal.verdict = "gray"

-----------------------------------------------------------------------------
(* Specification of the signal mappers, each applied on its own *)

Mappers ==
    {"email", "blacklist", "typosquat", "dnsArmor", "shadowInfra", "history",
     "liveThreat", "exposedServices", "exploitedRisk"}

VerdictMappers == {"email", "blacklist", "typosquat", "dnsArmor", "shadowInfra", "history"}

\* The verdicts a check returns for a finding, positive or negative.
Findings(mapper) ==
    CASE mapper = "email"       -> {"protected", "partial", "not_protected"}
      [] mapper = "blacklist"   -> {"listed", "clean"}
      [] mapper = "typosquat"   -> {"risk_detected", "safe"}
      [] mapper = "dnsArmor"    -> {"hardened", "missing"}
      [] mapper = "shadowInfra" -> {"high_exposure", "monitored", "stable"}
      [] mapper = "history"     -> {"deep_history", "visible", "minimal"}

\* The verdict field is a string: the findings of every check, the verdicts of the
\* runs without a finding, and values no check returns.
RawVerdicts ==
    UNION { Findings(m) : m \in VerdictMappers }
    \cup {"unknown", "not_applicable", "error", ""}

VerdictRaws == { [verdict |-> v, count |-> c] : v \in RawVerdicts, c \in 0..TYPO_EARLY_EXIT }

\* The results the clients of the three live-threat sources return.
LiveThreatRaws ==
    { [NoData EXCEPT !.urlhaus = u, !.threatfox = t, !.abuseipdb = a] :
        u \in {UrlhausUnavailable} \cup {[available |-> TRUE, hits |-> h] : h \in 0..1},
        t \in {ThreatFoxUnavailable} \cup {[available |-> TRUE, hits |-> h] : h \in 0..3},
        a \in {AbuseIpdbUnavailable}
              \cup {[available |-> TRUE, abuseScore |-> x] : x \in {NULL_NUM, 0, 34, 35, 69, 70}} }

ShodanRaws ==
    { [NoData EXCEPT !.shodan = sh, !.kevHits = k] :
        sh \in {ShodanUnavailable}
               \cup {[available |-> TRUE, portCount |-> pc, vulnCount |-> Cardinality(vs),
                      vulns |-> vs] : pc \in {0, 2, 3, 7, 8}, vs \in {{}, {"CVE-1"}}},
        k \in {NULL_NUM, 0, 1} }

MapperProbes ==
    { [check |-> "map", mapper |-> m, raw |-> r] : m \in VerdictMappers, r \in VerdictRaws }
    \cup { [check |-> "map", mapper |-> "liveThreat", raw |-> r] : r \in LiveThreatRaws }
    \cup { [check |-> "map", mapper |-> m, raw |-> r] :
             m \in {"exposedServices", "exploitedRisk"}, r \in ShodanRaws }

ApplyMapper(mapper, raw) ==
    CASE mapper = "email"           -> mapEmailSignal(raw)
      [] mapper = "blacklist"       -> mapBlacklistSignal(raw)
      [] mapper = "typosquat"       -> mapTyposquatSignal(raw)
      [] mapper = "dnsArmor"        -> mapDnsArmorSignal(raw)
      [] mapper = "shadowInfra"     -> mapShadowInfraSignal(raw)
      [] mapper = "history"         -> mapHistorySignal(raw)
      [] mapper = "liveThreat"      -> mapLiveThreatSignal(raw)
      [] mapper = "exposedServices" -> mapExposedServicesSignal(raw)
      [] mapper = "exploitedRisk"   -> mapExploitedRiskSignal(raw)

MappersInit ==
    /\ probe \in MapperProbes
    /\ outcome = NoOutcome

RunMapper ==
    /\ probe.check = "map"
    /\ ~outcome.done
    /\ outcome' = Ran(probe.raw, <<>>, ApplyMapper(probe.mapper, probe.raw))
    /\ UNCHANGED <<now, limiterVars, intelVars, verdictVars, weatherVars, postVars, probe>>

MappersNext == RunMapper

MappersSpecInit == LimiterInit /\ IntelIdle /\ VerdictIdle /\ WeatherIdle /\ PostIdle /\ MappersInit

SpecMappers == MappersSpecInit /\ [][MappersNext]_vars

-----------------------------------------------------------------------------
(* Specification of normalizeAndValidateDomain alone *)

RECURSIVE Repeat(_, _)
Repeat(str, n) ==
    IF n = 0 THEN ""
    ELSE IF n = 1 THEN str
    ELSE Repeat(str, n \div 2) \o Repeat(str, n - n \div 2)

\* Host parts of the inputs: plain names, upper case, single labels, address
\* literals, local names, hyphens and empty labels at every place, labels of 63 and
\* 64 characters, names of 253 and 254 characters.
NormalizeHosts ==
    {"d1.example", "D1.Example", "example", "a.b.c.se", "xn--4ca.se", "1.2.3.4", "1.2.3.4.5",
     "999.1.1.1", "1.2.3", "1.2.3.1234", "localhost", "a.local", "a.localhost", "local.se",
     "localhost.se", "-a.se", "a-.se", "a-b.se", "a.-se", "a.se-", "a..se", "a_b.se", "a b.se",
     "a.s=e", "london1=x.com", "", ".", "-", "a", "1",
     Repeat("a", 63) \o ".se", Repeat("a", 64) \o ".se",
     Repeat(Repeat("a", 63) \o ".", 3) \o Repeat("b", 61),
     Repeat(Repeat("a", 63) \o ".", 3) \o Repeat("b", 62)}

NormalizePrefixes ==
    {"", "https://", "HTTP://", "http:/", "ftp://", " ", ".", "<b>", "<", "javascript:",
     "JavaScript:", "onclick=", "\"", "user@"}

NormalizeSuffixes ==
    {"", "/path", "?q=1", "#top", ":8080", ".", " ", "/", "</b>", ">", ".LOCAL", "'"}

NormalizeProbes ==
    { [check |-> "normalize", input |-> p \o h \o q] :
          p \in NormalizePrefixes, h \in NormalizeHosts, q \in NormalizeSuffixes }

NormalizeInit ==
    /\ probe \in NormalizeProbes
    /\ outcome = NoOutcome

RunNormalize ==
    /\ probe.check = "normalize"
    /\ ~outcome.done
    /\ outcome' = [done |-> TRUE, validation |-> normalizeAndValidateDomain(probe.input)]
    /\ UNCHANGED <<now, limiterVars, intelVars, verdictVars, weatherVars, postVars, probe>>

NormalizeNext == RunNormalize

NormalizeSpecInit == LimiterInit /\ IntelIdle /\ VerdictIdle /\ WeatherIdle /\ PostIdle /\ NormalizeInit

SpecNormalize == NormalizeSpecInit /\ [][NormalizeNext]_vars

-----------------------------------------------------------------------------
(* Specification of the two limiters side by side *)

\* The key both limiters are called on, and the max they share in one behaviour.
TwinKey == "kev"
TwinProbes ==
    { [check |-> "twin", max |-> m] :
        m \in {1, 2, UPSTREAM_RATE_MAX_REQUESTS[TwinKey], RATE_LIMIT_MAX_REQUESTS} }

\* Call times: within a window, its last instant, the first after it, and the same
\* around the windows opened later.
TwinInstants ==
    {0, 1, RATE_LIMIT_WINDOW_MS, RATE_LIMIT_WINDOW_MS + 1, RATE_LIMIT_WINDOW_MS + 2,
     2 * RATE_LIMIT_WINDOW_MS + 1, 2 * RATE_LIMIT_WINDOW_MS + 2, 2 * RATE_LIMIT_WINDOW_MS + 3}

TwinInit ==
    /\ LimiterInit /\ IntelIdle /\ VerdictIdle /\ WeatherIdle /\ PostIdle
    /\ probe \in TwinProbes
    /\ outcome = NoOutcome

\* checkRateLimit and consumeUpstreamBudget are called on TwinKey at the same time.
TwinCall ==
    LET a == checkRateLimitWith(rateLimitStore, TwinKey, now, RATE_LIMIT_WINDOW_MS, probe.max)
        b == consumeUpstreamBudgetWith(upstreamRateStore, TwinKey, now, RATE_LIMIT_WINDOW_MS,
                                       probe.max)
    IN  /\ probe.check = "twin"
        /\ rateLimitStore' = a.store
        /\ upstreamRateStore' = b.store
        /\ outcome' = [done |-> TRUE, at |-> now, allowed |-> a.allowed, ok |-> b.ok,
                       opened |-> (TwinKey \notin DOMAIN rateLimitStore
                                   \/ rateLimitStore[TwinKey].resetAt < now)]
        /\ UNCHANGED <<now, rlLast, admitTimes, histWin, threatIntelCache, kevCache, world,
                       tasks, issued, obs, run, verdictVars, weatherVars, postVars, probe>>

TwinTick ==
    /\ probe.check = "twin"
    /\ \E t \in TwinInstants : t > now /\ now' = t
    /\ UNCHANGED <<rateLimitStore, rlLast, admitTimes, histWin, intelVars, verdictVars, weatherVars,
                   postVars, checkVars>>

TwinNext == TwinCall \/ TwinTick

SpecTwin == TwinInit /\ [][TwinNext]_vars

-----------------------------------------------------------------------------
(* Specification of the limiter on a crowded store *)

\* Addresses that called before the behaviour starts: a thousand of them, or one
\* fewer, so that the calls of Callers take the store to and past
\* RATE_LIMIT_SWEEP_SIZE.
CrowdKeys == { a \o b \o c : a \in Digits, b \in Digits, c \in Digits }
Crowds == { CrowdKeys, CrowdKeys \ {"999"} }

\* The entry of a crowd address: it called once or often, in a window that ends
\* just after the start of the behaviour, at the end of the next window, or later.
CrowdEntry(k) ==
    [count   |-> IF SubSeq(k, 1, 1) \in {"0", "1", "2"} THEN RATE_LIMIT_MAX_REQUESTS
                 ELSE IF SubSeq(k, 1, 1) \in {"3", "4", "5"} THEN 3 ELSE 1,
     resetAt |-> IF SubSeq(k, 3, 3) \in {"0", "1", "2", "3"} THEN RATE_LIMIT_WINDOW_MS + 1
                 ELSE IF SubSeq(k, 3, 3) \in {"4", "5", "6"} THEN 2 * RATE_LIMIT_WINDOW_MS
                 ELSE 4 * RATE_LIMIT_WINDOW_MS]

CrowdInstants ==
    {RATE_LIMIT_WINDOW_MS, RATE_LIMIT_WINDOW_MS + 1, RATE_LIMIT_WINDOW_MS + 2,
     2 * RATE_LIMIT_WINDOW_MS + 1}

\* The address that calls at will; every other one calls once per window.
CrowdBusy == "ip1"

\* checkRateLimit without its eviction loop, on the store kept beside the real one.
checkRateLimitNoEviction(store, ip, t) ==
    IF ip \notin DOMAIN store \/ store[ip].resetAt < t
    THEN [store     |-> MapSet(store, ip, [count |-> 1, resetAt |-> t + RATE_LIMIT_WINDOW_MS]),
          allowed   |-> TRUE,
          remaining |-> RATE_LIMIT_MAX_REQUESTS - 1,
          resetIn   |-> RATE_LIMIT_WINDOW_MS]
    ELSE IF store[ip].count >= RATE_LIMIT_MAX_REQUESTS
    THEN [store |-> store, allowed |-> FALSE, remaining |-> 0, resetIn |-> store[ip].resetAt - t]
    ELSE [store     |-> MapSet(store, ip, [store[ip] EXCEPT !.count = @ + 1]),
          allowed   |-> TRUE,
          remaining |-> RATE_LIMIT_MAX_REQUESTS - (store[ip].count + 1),
          resetIn   |-> store[ip].resetAt - t]

CrowdInit ==
    /\ now = RATE_LIMIT_WINDOW_MS
    /\ \E crowd \in Crowds :
          /\ rateLimitStore = [k \in crowd |-> CrowdEntry(k)]
          /\ upstreamRateStore = [k \in crowd |-> CrowdEntry(k)]
    /\ rlLast = NoCall
    /\ admitTimes = [c \in Callers |-> <<>>]
    /\ histWin = [c \in Callers |-> [start |-> 0, calls |-> 0, admits |-> 0]]
    /\ threatIntelCache = EmptyMap
    /\ kevCache = NoKevCache
    /\ world = [urlhausHits |-> 0, threatfoxHits |-> 0, abuseScore |-> 0,
                ports |-> 0, vulns |-> {}, kev |-> {}]
    /\ tasks = [k \in Tasks |-> IdleTask]
    /\ issued = [s \in Sources |-> [start |-> 0, calls |-> 0]]
    /\ obs = NoObs
    /\ run = [calls |-> 0, bursts |-> 0]
    /\ VerdictIdle /\ WeatherIdle /\ PostIdle
    /\ probe = [check |-> "crowd"]
    /\ outcome = NoOutcome

\* checkRateLimit(ip) is called by a caller or by an address of the crowd; the
\* limiter without eviction takes the same call on the store kept beside.
CrowdCall ==
    \E ip \in Callers \cup {"000"} :
        LET r == checkRateLimit(rateLimitStore, ip, now)
            p == checkRateLimitNoEviction(upstreamRateStore, ip, now)
        IN  /\ probe.check = "crowd"
            /\ IF ip = CrowdBusy \/ ip \notin DOMAIN upstreamRateStore THEN TRUE
               ELSE upstreamRateStore[ip].resetAt < now
            /\ rateLimitStore' = r.store
            /\ upstreamRateStore' = p.store
            /\ rlLast' = [ip |-> ip, at |-> now, allowed |-> r.allowed,
                          remaining |-> r.remaining, resetIn |-> r.resetIn]
            /\ outcome' = [done |-> TRUE, allowed |-> p.allowed, remaining |-> p.remaining,
                           resetIn |-> p.resetIn]
            /\ UNCHANGED <<now, admitTimes, histWin, threatIntelCache, kevCache, world,
                           tasks, issued, obs, run, verdictVars, weatherVars, postVars, probe>>

CrowdTick ==
    /\ probe.check = "crowd"
    /\ \E t \in CrowdInstants : t > now /\ now' = t
    /\ UNCHANGED <<rateLimitStore, rlLast, admitTimes, histWin, intelVars, verdictVars, weatherVars,
                   postVars, checkVars>>

CrowdNext == CrowdCall \/ CrowdTick

SpecCrowd == CrowdInit /\ [][CrowdNext]_vars

-----------------------------------------------------------------------------
(* Specifications of the internet-weather panel and of the sitrep route *)

PanelInit ==
    /\ LimiterInit /\ IntelIdle /\ VerdictIdle /\ PostIdle /\ ChecksIdle
    /\ panel \in {PanelMounted(source) : source \in PanelSources}
    /\ sitrepCache = NoCache
    /\ gets = NoGets

PanelNext == PanelConnect \/ WsOpen \/ WsMessage \/ WsError \/ WsClose \/ PanelUnmount

SpecPanel == PanelInit /\ [][PanelNext]_vars

\* What the browser guarantees: the call at the end of the effect and a pending
\* timeout run; a connecting socket opens or fails; a failed or locally closed
\* socket gets its close event.  Nothing makes the server close an open socket,
\* send a message, or the user leave the page.
PanelFair ==
    /\ WF_vars(PanelConnect)
    /\ WF_vars(WsOpen \/ WsError)
    /\ WF_vars(panel.ws = "CLOSING" /\ WsClose)

SpecPanelLive == PanelInit /\ [][PanelNext]_vars /\ PanelFair

SitrepCaller == "ip1"

\* Clock values: around the end of the first limiter window and of the first
\* cache TTL.
SitrepInstants ==
    {0, SITREP_RATE_LIMIT_WINDOW_MS, SITREP_RATE_LIMIT_WINDOW_MS + 1,
     CACHE_TTL_MS, CACHE_TTL_MS + 1}

SitrepInit ==
    /\ LimiterInit /\ IntelIdle /\ VerdictIdle /\ PostIdle /\ ChecksIdle
    /\ panel = NoPanel
    /\ sitrepCache = NoCache
    /\ gets = NoGets

SitrepCall ==
    \E g \in Gets : SitrepGet(g, SitrepCaller)

SitrepAnswer ==
    \E g \in Gets : SitrepSettle(g)

SitrepTick ==
    /\ \E t \in SitrepInstants : t > now /\ now' = t
    /\ gets' = [gets EXCEPT !.res = [NoResponse EXCEPT !.op = "tick"]]
    /\ UNCHANGED <<limiterVars, intelVars, verdictVars, postVars, checkVars, panel,
                   sitrepCache>>

SitrepNext == SitrepCall \/ SitrepAnswer \/ SitrepTick

SpecSitrep == SitrepInit /\ [][SitrepNext]_vars

PublicSignals ==
    [verdict : {"green", "amber", "red", "gray"},
     severity : {"success", "warning", "error", "neutral"},
     teaser : STRING,
     confidence : {"high", "medium", "low"}]

\* The raw outcome carries a finding of the check the mapper belongs to: one of its
\* finding verdicts, or an answer of a source the mapper reads.
HasFinding(mapper, raw) ==
    CASE mapper \in VerdictMappers -> raw.verdict \in Findings(mapper)
      [] mapper = "liveThreat" ->
            raw.urlhaus.available \/ raw.threatfox.available \/ raw.abuseipdb.available
      [] OTHER -> raw.shodan.available

\* C16: every mapper gives, for every raw outcome, the verdict unknown and values
\* outside the recognised set included, exactly one well-formed PublicSignal, and
\* gives a band other than gray only for a raw outcome that carries a finding.
C16_MappersTotalAndExplicit ==
    (outcome.done /\ probe.check = "map")
    => /\ outcome.signal \in PublicSignals
       /\ outcome.signal.verdict # "gray" => HasFinding(probe.mapper, outcome.raw)

C16_Witness ==
    /\ outcome.done
    /\ probe.check = "map"
    /\ probe.mapper = "history"
    /\ outcome.raw.verdict = "unknown"
    /\ outcome.signal.verdict = "gray"

\* C17: in every signal the band is gray iff the severity is neutral iff the
\* confidence is low, the severity is the one of the band (green success, amber
\* warning, red error, gray neutral), and a gray signal comes only from a raw
\* outcome without a finding.
C17_GrayNeutralLow ==
    (outcome.done /\ probe.check = "map")
    => /\ (outcome.signal.verdict = "gray") = (outcome.signal.severity = "neutral")
       /\ (outcome.signal.verdict = "gray") = (outcome.signal.confidence = "low")
       /\ outcome.signal.severity =
            (CASE outcome.signal.verdict = "green" -> "success"
               [] outcome.signal.verdict = "amber" -> "warning"
               [] outcome.signal.verdict = "red"   -> "error"
               [] OTHER                            -> "neutral")
       /\ outcome.signal.verdict = "gray" => ~HasFinding(probe.mapper, outcome.raw)

C17_Witness ==
    /\ outcome.done
    /\ probe.check = "map"
    /\ probe.mapper = "dnsArmor"
    /\ outcome.raw.verdict = "unknown"
    /\ outcome.signal.verdict = "gray"
    /\ outcome.signal.severity = "neutral"
    /\ outcome.signal.confidence = "low"

\* C20: mapLiveThreatSignal gives red for any malicious-URL hit, at least 3 IOC
\* hits or an abuse score of 70 or more; otherwise amber for any IOC hit or an
\* abuse score of 35 or more; otherwise green iff at least one of the three sources
\* answered, and gray with confidence low iff none of them answered.
C20_LiveThreatTable ==
    (outcome.done /\ probe.check = "map" /\ probe.mapper = "liveThreat")
    => LET raw   == outcome.raw
           score == raw.abuseipdb.abuseScore
           answered ==
               raw.urlhaus.available \/ raw.threatfox.available \/ raw.abuseipdb.available
           high == raw.urlhaus.hits > 0 \/ raw.threatfox.hits >= 3
                   \/ (score # NULL_NUM /\ score >= 70)
           medium == raw.threatfox.hits > 0 \/ (score # NULL_NUM /\ score >= 35)
       IN  /\ high => outcome.signal.verdict = "red"
           /\ (~high /\ medium) => outcome.signal.verdict = "amber"
           /\ (~high /\ ~medium) => (outcome.signal.verdict = "green") = answered
           /\ (outcome.signal.verdict = "gray") = ~answered
           /\ outcome.signal.verdict = "gray" => outcome.signal.confidence = "low"

C20_Witness ==
    /\ outcome.done
    /\ probe.check = "map"
    /\ probe.mapper = "liveThreat"
    /\ outcome.raw.urlhaus.hits = 0
    /\ outcome.raw.threatfox.hits = 3
    /\ ~outcome.raw.abuseipdb.available
    /\ outcome.signal.verdict = "red"

\* A DNS or HTTP call the run of the check issued timed out or failed.
LookupIncomplete ==
    LET down == {"timeout", "fail"}
    IN  CASE probe.check = "email" ->
               \/ probe.mx.state \in down
               \/ /\ "txt" \in Range(outcome.lookups)
                  /\ probe.spf.state \in down \/ probe.dmarc.state \in down
          [] probe.check \in {"blacklist", "blacklistQuick"} ->
               \/ probe.a.state \in down
               \/ Range(outcome.lookups) \cap probe.timedOut # {}
          [] probe.check = "dnsArmor" -> probe.caa.state \in down
          [] probe.check = "typosquat" ->
               \E c \in Range(outcome.lookups) : probe.answers[c] \in down
          [] probe.check \in {"shadow", "history"} -> probe.res.state # "ok"
          [] OTHER -> FALSE

\* C18 (as stated): a signal has confidence high only if every lookup of its check
\* completed: when a DNS or HTTP call of the check timed out or failed, the
\* confidence of the signal is medium or low.
C18_HighConfidenceNeedsCompletedLookups ==
    (outcome.done /\ probe.check # "map" /\ LookupIncomplete)
    => outcome.signal.confidence \in {"medium", "low"}

\* C19: checkTyposquats looks up at most 6 candidates, in the fixed order of the
\* list, and issues no lookup once 3 have resolved, so its count is in 0..3;
\* count 0 gives safe and green, a count above 0 gives risk_detected, amber for 1
\* and red for 2 or more.
C19_TyposquatEarlyExit ==
    (outcome.done /\ probe.check = "typosquat")
    => LET candidates == typos(probe.domain)
           n == Len(outcome.lookups)
           Resolved(k) ==
               Cardinality({i \in 1..k : probe.answers[candidates[i]] = "records"})
       IN  /\ n <= 6
           /\ outcome.lookups = SubSeq(candidates, 1, n)
           /\ \A k \in 0..(n - 1) : Resolved(k) < 3
           /\ n < Len(candidates) => Resolved(n) = 3
           /\ outcome.raw.count = Resolved(n)
           /\ outcome.raw.count \in 0..3
           /\ outcome.raw.count = 0
                => outcome.raw.verdict = "safe" /\ outcome.signal.verdict = "green"
           /\ outcome.raw.count > 0 => outcome.raw.verdict = "risk_detected"
           /\ outcome.raw.count = 1 => outcome.signal.verdict = "amber"
           /\ outcome.raw.count >= 2 => outcome.signal.verdict = "red"

C19_Witness ==
    /\ outcome.done
    /\ probe.check = "typosquat"
    /\ Len(outcome.lookups) = 4
    /\ probe.answers[outcome.lookups[2]] = "timeout"
    /\ \A c \in DOMAIN probe.answers : probe.answers[c] # "nodata"
    /\ outcome.raw.count = 3
    /\ outcome.signal.verdict = "red"

\* The port/vulnerability feed answered the round and reported a CVE that the
\* known-exploited catalog lists.
ReportedCveInCatalog ==
    /\ obs.returned
    /\ obs.data.shodan.available
    /\ obs.data.shodan.vulns \cap world.kev # {}

\* The round had a catalog to compare with: the cached one, the one it fetched, or
\* the expired one kept when the kev budget was refused.
CatalogObtained ==
    \/ obs.kev \in {"hit", "fetch"}
    \/ obs.kev = "refused" /\ kevCache.valid

C23_AdmittedEventuallyAnswered ==
    \A r \in Reqs : (reqs[r].pc # "idle") ~> (reqs[r].pc = "idle")

\* C24 (as stated): when TURNSTILE_SECRET_KEY is not configured, every request is
\* answered 500: none obtains a report, no verification call is made and no check
\* of the battery runs.
C24_MissingSecretEveryRequest500 ==
    [][ (env.secret = "" /\ act'.status # 0) =>
          /\ act'.status = 500
          /\ act'.effects = {} ]_vars

\* C24 (amended): when TURNSTILE_SECRET_KEY is not configured, every request that
\* the rate limiter admits is answered 500 and a request it refuses is answered 429;
\* no request obtains a report, no external call (verification, DNS, feed) is made,
\* no check of the battery runs and nothing of the intel stores or of the report
\* changes.
C24_MissingSecretFailsClosed ==
    [][ env.secret = "" =>
          /\ act'.effects = {}
          /\ act'.status \in {0, 429, 500}
          /\ (act'.status # 0 /\ act'.allowed) => act'.status = 500
          /\ \A r \in Reqs : reqs'[r].pc \in {"idle", "json"}
          /\ \A r \in Reqs : (reqs[r].pc = "json" /\ reqs'[r].pc = "idle") => act'.status = 500
          /\ UNCHANGED <<intelVars, verdictVars>> ]_vars

\* Without a secret, an admitted request with a readable body was answered 500.
C24_Witness ==
    /\ env.secret = ""
    /\ act.op = "json"
    /\ act.status = 500
    /\ act.error = "Sakerhetskonfiguration saknas"

\* C25 (as stated): without the Turnstile environment variables the application
\* works with captcha protection disabled: the response to a request with a valid
\* domain and no Turnstile token is a report.
C25_WorksWithoutTurnstileKeys ==
    [][ \A r \in Reqs :
          ( /\ env.secret = "" /\ env.siteKey = ""
            /\ reqs[r].pc # "idle"
            /\ reqs[r].body.json
            /\ reqs[r].body.turnstileToken = ""
            /\ BodyValidation[reqs[r].body.domain].valid
            /\ reqs'[r].pc = "idle" )
          => (act'.status = 200 /\ act'.op = "respond") ]_vars

\* A production deployment configured with a Turnstile test secret or test site key.
TestKeysInProduction ==
    /\ env.production
    /\ \/ startsWith(env.secret, TURNSTILE_TEST_SECRET_PREFIX)
       \/ startsWith(env.siteKey, TURNSTILE_TEST_SITE_KEY_PREFIX)

\* C26: in production, when the secret starts with the test-secret prefix or the
\* site key starts with the test site-key prefix, every request that passed the
\* rate limiter is answered 500, no verification call and no other external call
\* is made, and no check runs: no request goes beyond the configuration check.
C26_TestKeysRejectedInProduction ==
    [][ TestKeysInProduction =>
          /\ act'.effects = {}
          /\ (act'.status # 0 /\ act'.allowed) => act'.status = 500
          /\ \A r \in Reqs : reqs'[r].pc \in {"idle", "json"}
          /\ \A r \in Reqs : (reqs[r].pc = "json" /\ reqs'[r].pc = "idle") => act'.status = 500
          /\ UNCHANGED <<intelVars, verdictVars>> ]_vars

\* In production with a live secret and a test site key, a request was answered 500
\* at the configuration check.
C26_Witness ==
    /\ env.production
    /\ env.secret = "live"
    /\ isTurnstileTestSiteKey(env.siteKey)
    /\ act.status = 500
    /\ act.error = "Sakerhetskonfiguration ogiltig for produktionslage"

\* A label of a canonical name: 1 to 63 characters of a-z, 0-9 and the hyphen, the
\* first and the last of them no hyphen.
CanonicalLabel(label) ==
    /\ Len(label) \in 1..63
    /\ \A i \in 1..Len(label) : SubSeq(label, i, i) \in LowerLetters \cup Digits \cup {"-"}
    /\ SubSeq(label, 1, 1) # "-"
    /\ SubSeq(label, Len(label), Len(label)) # "-"

\* The labels of a name, read character by character.
LabelsOf(name) ==
    LET dots == {i \in 1..Len(name) : SubSeq(name, i, i) = "."}
        cuts == {0} \cup dots \cup {Len(name) + 1}
    IN  { SubSeq(name, i + 1, j - 1) :
            <<i, j>> \in {c \in cuts \X cuts :
                            c[1] < c[2] /\ \A k \in cuts : ~(c[1] < k /\ k < c[2])} }

NumberOfLabels(name) == Cardinality({i \in 1..Len(name) : SubSeq(name, i, i) = "."}) + 1

CanonicalName(name) ==
    /\ \A i \in 1..Len(name) : SubSeq(name, i, i) \notin UpperLetters
    /\ Len(name) <= 253
    /\ NumberOfLabels(name) >= 2
    /\ \A label \in LabelsOf(name) : CanonicalLabel(label)
    /\ ~(/\ NumberOfLabels(name) = 4
         /\ \A label \in LabelsOf(name) :
               Len(label) <= 3 /\ \A i \in 1..Len(label) : SubSeq(label, i, i) \in Digits)
    /\ name # "localhost"
    /\ ~endsWith(name, ".local")
    /\ ~endsWith(name, ".localhost")

\* C28: normalizeAndValidateDomain fails for every input that after cleaning has
\* fewer than two labels or a label that is not valid, and every domain it returns
\* as valid is canonical: lower-case, at most 253 characters, at least two labels,
\* each label 1 to 63 characters of a-z, 0-9 and hyphen with no hyphen first or
\* last, no dotted-quad IPv4 literal, not localhost, not ending in .local or
\* .localhost.
C28_ValidDomainIsCanonical ==
    (outcome.done /\ probe.check = "normalize") =>
        LET cleaned == hostOf(sanitize(probe.input))
        IN  /\ (\/ NumberOfLabels(cleaned) < 2
                \/ \E label \in LabelsOf(cleaned) : ~CanonicalLabel(label))
                  => ~outcome.validation.valid
            /\ outcome.validation.valid =>
                  /\ CanonicalName(outcome.validation.domain)
                  /\ outcome.validation.domain = cleaned
                  /\ outcome.validation.error = ""
            /\ ~outcome.validation.valid =>
                  (outcome.validation.domain = "" /\ outcome.validation.error # "")

\* A URL in upper case with a port and a path was cut down to a valid name of the
\* greatest length.
C28_Witness ==
    /\ outcome.done
    /\ probe.check = "normalize"
    /\ outcome.validation.valid
    /\ Len(outcome.validation.domain) = 253
    /\ startsWith(probe.input, "HTTP://")
    /\ endsWith(probe.input, ":8080")

\* The request in slot r carries a readable body whose domain fails normalisation.
CarriesInvalidDomain(r) ==
    /\ reqs[r].pc # "idle"
    /\ reqs[r].body.json
    /\ ~normalizeAndValidateDomain(reqs[r].body.domain).valid

\* C27: a request whose domain fails normalisation never reaches getPrimaryIp or
\* the check battery: its steps make no DNS lookup and no feed call (the Turnstile
\* verification, which precedes the normalisation, is its only external call),
\* consume no upstream budget, write no cache and change no report.  Once Turnstile
\* has accepted its token, so that normalizeAndValidateDomain runs on it, it is
\* answered 400; before that point it can only be answered 401 or 500, and 400 is
\* sent at no other point.  A request is in the check battery only with the domain
\* normalizeAndValidateDomain returned as valid.
C27_InvalidDomainNeverChecked ==
    [][ \A r \in Reqs :
          /\ CarriesInvalidDomain(r) =>
               /\ reqs'[r].pc \in {"idle", "json", "verify"}
               /\ reqs'[r] # reqs[r] =>
                    /\ act'.req = r
                    /\ act'.effects \subseteq {"turnstile"}
                    /\ UNCHANGED <<intelVars, verdictVars>>
               /\ reqs'[r].pc = "idle" =>
                    /\ act'.status \in {400, 401, 500}
                    /\ (/\ reqs[r].pc = "verify"
                        /\ TurnstileSuccess(reqs[r].body.turnstileToken)
                        /\ act'.status # 500) => act'.status = 400
                    /\ act'.status = 400 =>
                         (reqs[r].pc = "verify" /\ TurnstileSuccess(reqs[r].body.turnstileToken))
          /\ reqs'[r].pc \in {"resolve", "battery"} =>
               /\ normalizeAndValidateDomain(reqs'[r].body.domain).valid
               /\ reqs'[r].domain = normalizeAndValidateDomain(reqs'[r].body.domain).domain ]_vars

\* A local name with an accepted token was answered 400 while the caches and the
\* budgets held entries of an earlier report.
C27_Witness ==
    /\ act.op = "verify"
    /\ act.status = 400
    /\ act.error = "Lokala domaner stods inte"
    /\ upstreamRateStore # EmptyMap
    /\ threatIntelCache # EmptyMap

\* C29 (as stated): no data is stored and every analysis runs without caching: once
\* a request has been answered with its report, the process state holds no domain,
\* IP or result of that request.
C29_NothingKeptAfterResponse ==
    (act.op = "respond" /\ act.status = 200) =>
        \A key \in DOMAIN threatIntelCache : key[1] # act.domain

\* C30: called on one key at the same arbitrary times with the same window and the
\* same max, consumeUpstreamBudget returns true exactly when checkRateLimit returns
\* allowed = true, and the two stores hold the same {count, resetAt} for the key
\* after every call; the first admission of a new window sets count to 1 and
\* resetAt to one window after the call.
C30_SamePrimitive ==
    /\ rateLimitStore = upstreamRateStore
    /\ (outcome.done /\ probe.check = "twin") =>
          /\ outcome.ok = outcome.allowed
          /\ DOMAIN rateLimitStore = {TwinKey}
          /\ rateLimitStore[TwinKey].count \in 1..probe.max
          /\ (outcome.opened /\ outcome.at = now) =>
                /\ outcome.allowed
                /\ rateLimitStore[TwinKey] = [count |-> 1, resetAt |-> now + RATE_LIMIT_WINDOW_MS]

\* Both limiters refused a call in a window opened after the first one had expired.
C30_Witness ==
    /\ outcome.done
    /\ probe.check = "twin"
    /\ ~outcome.allowed
    /\ ~outcome.ok
    /\ probe.max = RATE_LIMIT_MAX_REQUESTS
    /\ upstreamRateStore[TwinKey].resetAt > 2 * RATE_LIMIT_WINDOW_MS

\* C31: the eviction of checkRateLimit is transparent.  A call removes entries only
\* when the store holds more than RATE_LIMIT_SWEEP_SIZE entries at the call, and
\* only entries whose window has expired (resetAt < now); every entry it keeps is
\* the entry of the limiter without eviction, no live entry of that limiter is
\* missing from the store, and every call returns the allowed, remaining and
\* resetIn that the limiter without eviction returns.
C31_EvictionTransparent ==
    [][ /\ (DOMAIN rateLimitStore \ DOMAIN rateLimitStore' # {}) =>
              /\ Cardinality(DOMAIN rateLimitStore) > RATE_LIMIT_SWEEP_SIZE
              /\ \A k \in DOMAIN rateLimitStore \ DOMAIN rateLimitStore' :
                    rateLimitStore[k].resetAt < now
        /\ \A k \in DOMAIN rateLimitStore' : /\ k \in DOMAIN upstreamRateStore'
                                             /\ rateLimitStore'[k] = upstreamRateStore'[k]
        /\ \A k \in DOMAIN upstreamRateStore' :
              ~(upstreamRateStore'[k].resetAt < now') => k \in DOMAIN rateLimitStore'
        /\ outcome'.done =>
              /\ rlLast'.allowed = outcome'.allowed
              /\ rlLast'.remaining = outcome'.remaining
              /\ rlLast'.resetIn = outcome'.resetIn ]_vars

\* After an eviction, a caller whose entry was live through it was refused at the
\* full window, as without eviction.
C31_Witness ==
    /\ probe.check = "crowd"
    /\ outcome.done
    /\ Cardinality(DOMAIN rateLimitStore) < Cardinality(DOMAIN upstreamRateStore)
    /\ ~rlLast.allowed
    /\ rlLast.ip \in Callers

\* C32: a request that checkRateLimit admits consumes exactly one unit of the window
\* of its caller: its entry is {count: 1, resetAt: now + RATE_LIMIT_WINDOW_MS} when
\* it had none or an expired one, and the same entry with count one higher
\* otherwise.  No later step of a request, whatever its answer (400, 401, 500 or a
\* report), changes rateLimitStore, and a refused request is answered 429 and
\* leaves the store, count and resetAt of its caller included, as it was.
C32_AdmittedConsumesOneUnit ==
    [][ /\ (act'.op = "POST" /\ act'.allowed) =>
              /\ rateLimitStore'[act'.ip] =
                    IF act'.ip \in DOMAIN rateLimitStore
                       /\ ~(rateLimitStore[act'.ip].resetAt < now)
                    THEN [count   |-> rateLimitStore[act'.ip].count + 1,
                          resetAt |-> rateLimitStore[act'.ip].resetAt]
                    ELSE [count |-> 1, resetAt |-> now + RATE_LIMIT_WINDOW_MS]
              /\ rateLimitStore'[act'.ip].count <= RATE_LIMIT_MAX_REQUESTS
              /\ \A k \in DOMAIN rateLimitStore \ {act'.ip} :
                    k \in DOMAIN rateLimitStore' /\ rateLimitStore'[k] = rateLimitStore[k]
        /\ (act'.op = "POST" /\ ~act'.allowed) =>
              /\ act'.status = 429
              /\ rateLimitStore' = rateLimitStore
        /\ act'.op # "POST" => rateLimitStore' = rateLimitStore ]_vars

\* The request that took the last unit of a window was answered 400.
C32_Witness ==
    /\ act.status = 400
    /\ act.ip \in DOMAIN rateLimitStore
    /\ rateLimitStore[act.ip].count = RATE_LIMIT_MAX_REQUESTS
    /\ rateLimitStore[act.ip].resetAt > RATE_LIMIT_WINDOW_MS

\* Task k is inside a round (fetching, or waiting for the KEV feed) for the key.
RoundOpen(k, key) ==
    tasks[k].pc # "idle" /\ CacheKey(tasks[k].domain, tasks[k].ip) = key

\* C33: a call of checkThreatIntel that starts while another call for the same
\* cache key is still inside its round issues no upstream call and consumes no
\* budget.
C33_OverlappingCallsShareRound ==
    [][ (IsIntelCall /\ \E j \in Tasks \ {obs'.task} : RoundOpen(j, obs'.key)) =>
            /\ obs'.effects = {}
            /\ UNCHANGED <<upstreamRateStore, issued>> ]_vars

\* C33 (amended): a call of checkThreatIntel runs its clients (each one asks for
\* budget and, when granted, issues its upstream call) exactly when
\* threatIntelCache holds no unexpired entry for its key at the time it starts,
\* whether or not another call for that key is inside its round; a call that finds
\* an unexpired entry issues nothing and consumes nothing; and every round that
\* ends writes its own result under the key with a full TTL, replacing what an
\* overlapping round wrote before it.
C33_RoundUnlessCached ==
    [][ /\ IsIntelCall =>
              IF CacheFresh(threatIntelCache, obs'.key, now)
              THEN /\ obs'.effects = {} /\ obs'.refused = {}
                   /\ UNCHANGED <<upstreamRateStore, issued>>
              ELSE /\ obs'.effects \cup obs'.refused =
                         {RoundSources(tasks'[obs'.task].ip)[i] :
                            i \in 1..Len(RoundSources(tasks'[obs'.task].ip))}
                   /\ \A s \in obs'.effects : issued'[s] # issued[s]
                   /\ obs'.effects # {} => upstreamRateStore' # upstreamRateStore
        /\ \A k \in Tasks :
              (tasks[k].pc # "idle" /\ tasks'[k].pc = "idle") =>
                  LET key == CacheKey(tasks[k].domain, tasks[k].ip)
                  IN  /\ key \in DOMAIN threatIntelCache'
                      /\ threatIntelCache'[key] =
                            [data |-> obs'.data,
                             expiresAt |-> now + THREAT_INTEL_CACHE_TTL_MS] ]_vars

\* Two calls for one key are inside their rounds at once, each with its own
\* upstream calls issued.
C33_Witness ==
    /\ \A k \in Tasks : RoundOpen(k, CacheKey("d1.example", "192.0.2.1"))
    /\ \A k \in Tasks : "shodan" \in tasks[k].inflight
    /\ issued["shodan"].calls >= 2

\* C34: getKevCves hands out a catalog only when the cached one is within its TTL or
\* the feed was fetched in this very call; a call whose kev budget was refused while
\* the cached catalog had expired returns null, so its round has no kevHits.
C34_NoExpiredCatalog ==
    (obs.returned /\ obs.kev = "refused") => obs.data.kevHits = NULL_NUM

\* The step asks for kev budget, issues a call to the KEV feed or hands a catalog to
\* a round.
KevConsulted ==
    \/ issued'["kev"] # issued["kev"]
    \/ IF "kev" \in DOMAIN upstreamRateStore'
       THEN IF "kev" \in DOMAIN upstreamRateStore
            THEN upstreamRateStore'["kev"] # upstreamRateStore["kev"]
            ELSE TRUE
       ELSE FALSE
    \/ obs'.kev \notin {"none"} /\ obs'.op = "join"

\* kevHits of a ThreatIntelResult is null, or a count bounded by shodan.vulnCount of
\* an available feed answer with at least one CVE.
KevHitsBounded(data) ==
    data.kevHits # NULL_NUM =>
        /\ data.shodan.available
        /\ data.shodan.vulnCount > 0
        /\ 0 <= data.kevHits
        /\ data.kevHits <= data.shodan.vulnCount

\* C35: a round consults the catalog, and consumes kev budget, only when the
\* port/vulnerability feed answered with at least one CVE; and in every
\* ThreatIntelResult, returned or cached, kevHits is non-null only if
\* shodan.available and shodan.vulnCount > 0, and then 0 <= kevHits <= vulnCount.
C35_KevOnlyWithCves ==
    [][ /\ (KevConsulted /\ obs'.op # "otherKev") =>
              \E k \in Tasks :
                 LET shodan == IF tasks'[k].pc = "kev" THEN tasks'[k].data.shodan
                               ELSE obs'.data.shodan
                 IN  /\ tasks[k].pc = "fetching"
                     /\ obs'.op = "join" /\ obs'.task = k
                     /\ shodan.available
                     /\ shodan.vulnCount > 0
        /\ obs'.returned => KevHitsBounded(obs'.data)
        /\ \A key \in DOMAIN threatIntelCache' :
              KevHitsBounded(threatIntelCache'[key].data) ]_vars

\* A round with two reported CVEs ended with one of them in the catalog, after the
\* only call to the KEV feed.
C35_Witness ==
    /\ obs.returned /\ ~obs.hit
    /\ obs.data.shodan.vulnCount = 2
    /\ obs.data.kevHits = 1
    /\ issued["kev"].calls = 1

\* C36: every name checkTyposquats looks up differs from the domain it was given,
\* so the A record of the domain itself is never counted as a resolving lookalike.
C36_CandidatesDifferFromDomain ==
    (outcome.done /\ probe.check = "typosquat") =>
        \A i \in 1..Len(outcome.lookups) : outcome.lookups[i] # Join(probe.domain, ".")

\* The step is ws.onclose of a socket that had reached OPEN, in a mounted panel.
ConnectedSocketClosed ==
    panel.active /\ panel.opened /\ panel.op = "close"

\* C37: while the panel is mounted, whenever a socket that had reached the connected
\* state closes, connection becomes "reconnecting" and a reconnect is scheduled, so
\* that connect() eventually runs again (unless the panel is unmounted first); after
\* the unmount no reconnect is scheduled and no state update is applied.
C37_ClosedSocketReconnects ==
    /\ [](ConnectedSocketClosed => (panel.connection = "reconnecting" /\ panel.timer))
    /\ (ConnectedSocketClosed ~> (panel.op = "connect" \/ ~panel.active))
    /\ [][~panel.active =>
            /\ ~panel'.timer
            /\ panel'.connection = panel.connection
            /\ panel'.events = panel.events]_vars

\* C38: a GET of the sitrep route stores a response in cache only when the upstream
\* fetch succeeded; a GET that passes the limiter while the cached response is
\* unexpired is answered from cache without an upstream fetch; and a GET refused by
\* the limiter is answered 429 whether or not a response is cached.
C38_CacheOnlySuccessfulFetch ==
    [][ /\ sitrepCache' # sitrepCache => gets'.res.feed = "ok"
        /\ gets'.res.op = "GET" =>
              LET rl == sitrepCheckRateLimit(rateLimitStore, SitrepCaller, now)
              IN  /\ ~rl.allowed => gets'.res.status = 429
                  /\ (rl.allowed /\ SitrepCacheFresh(sitrepCache, now)) =>
                        /\ gets'.res.status = 200
                        /\ gets'.res.xcache = "HIT"
                        /\ gets'.res.data = sitrepCache.data
                        /\ gets'.pc = gets.pc
                        /\ sitrepCache' = sitrepCache ]_vars

====
